---------------------------- MODULE Spec2Model ----------------------------
(***************************************************************************)
(* Model of the web-search engine v2.0.0 (src/web-search/src/WebSearch.ts):*)
(* the tiered retrieval-and-cache class WebSearch with its three tools     *)
(* check_internet, scrape_website and reset_cache.                         *)
(*                                                                         *)
(* Strings are TLA+ strings; Len, \o, SubSeq, Head and Tail act on them as *)
(* on sequences of characters.  Times are seconds (Date.now() / 1000), and  *)
(* time passes in whole seconds.                                           *)
(* Confidence scores are kept in hundredths (0.3 is 30): in the order in   *)
(* which calculateConfidence adds its terms, the IEEE-754 sums compare     *)
(* with 0.5 and print with toFixed(0) exactly as the hundredths do.        *)
(***************************************************************************)
EXTENDS Integers, Sequences, FiniteSets, TLC

(***************************************************************************)
(* Bounds of the exploration                                               *)
(***************************************************************************)
NumSlots == 2        \* tool calls that may be in progress at the same time
MaxCalls == 2        \* scrape_website and check_internet calls in one behaviour
MaxClock == 3600     \* last instant of the clock, in seconds
MaxTicks == 1        \* passages of time in one behaviour
MaxKeys == 1         \* distinct cache keys addressed in one behaviour

(***************************************************************************)
(* String primitives of JavaScript used by the source                      *)
(***************************************************************************)
\* String.prototype.startsWith
StartsWith(s, p) == Len(s) >= Len(p) /\ SubSeq(s, 1, Len(p)) = p

\* String.prototype.endsWith
EndsWith(s, p) == Len(s) >= Len(p) /\ SubSeq(s, Len(s) - Len(p) + 1, Len(s)) = p

\* String.prototype.indexOf, 1-based; 0 when sub does not occur
IndexOf(s, sub) ==
    LET hits == {i \in 1..(Len(s) - Len(sub) + 1) : SubSeq(s, i, i + Len(sub) - 1) = sub}
    IN  IF hits = {} THEN 0 ELSE CHOOSE i \in hits : \A j \in hits : i <= j

\* String.prototype.includes
Includes(s, sub) == IndexOf(s, sub) # 0

\* String.prototype.replace with a string pattern: the first occurrence only
ReplaceFirst(s, pat, by) ==
    LET i == IndexOf(s, pat)
    IN  IF i = 0 THEN s
        ELSE SubSeq(s, 1, i - 1) \o by \o SubSeq(s, i + Len(pat), Len(s))

\* String.prototype.repeat
RECURSIVE Repeat(_, _)
Repeat(s, n) == IF n <= 0 THEN "" ELSE s \o Repeat(s, n - 1)

\* Array.prototype.join
RECURSIVE Join(_, _)
Join(parts, sep) ==
    IF Len(parts) = 0 THEN ""
    ELSE IF Len(parts) = 1 THEN parts[1]
    ELSE parts[1] \o sep \o Join(Tail(parts), sep)

\* Array.prototype.slice(0, n)
Slice0(seq, n) == SubSeq(seq, 1, IF Len(seq) < n THEN Len(seq) ELSE n)

\* Array.prototype.includes
ArrayIncludes(arr, x) == \E i \in 1..Len(arr) : arr[i] = x

\* a || b on strings: the first operand unless it is falsy (empty or absent)
OrElse(a, b) == IF a # "" THEN a ELSE b

\* Math.min
Min(a, b) == IF a <= b THEN a ELSE b

\* first position at or after the start of s that holds one of the
\* characters of stops; Len(s) + 1 when there is none
FirstOf(s, stops) ==
    LET hits == {i \in 1..Len(s) : SubSeq(s, i, i) \in stops}
    IN  IF hits = {} THEN Len(s) + 1 ELSE CHOOSE i \in hits : \A j \in hits : i <= j

(***************************************************************************)
(* new URL(url), for addresses of the form                                 *)
(*     scheme "://" host [ "/" path ] [ "?" query ] [ "#" fragment ]       *)
(* in lower case, without port, credentials or dot segments.  A string     *)
(* without "://" or with an empty host makes the constructor throw         *)
(* (ok = FALSE), as it does for "httpbin.org" or "example.com".            *)
(***************************************************************************)
ParseURL(url) ==
    LET i    == IndexOf(url, "://")
        rest == SubSeq(url, i + 3, Len(url))
        h    == FirstOf(rest, {"/", "?", "#"})
        tail == SubSeq(rest, h, Len(rest))
        q    == FirstOf(tail, {"?", "#"})
        path == SubSeq(tail, 1, q - 1)
    IN  IF i <= 1 \/ h = 1
        THEN [ok |-> FALSE, hostname |-> "", pathname |-> ""]
        ELSE [ok |-> TRUE,
              hostname |-> SubSeq(rest, 1, h - 1),
              pathname |-> IF path = "" THEN "/" ELSE path]

(***************************************************************************)
(* Configuration of the class                                              *)
(***************************************************************************)
cacheSizeLimit == 50
connectivityTTL == 60

\* timeout options of the axios calls, in seconds: the probe, the GitHub
\* requests, the page fetch (the Hacker News requests carry none)
ProbeTimeout == 3
ApiTimeout == 5
FetchTimeout == 10

\* strategies.basic, strategies.dynamic and the keys of strategies.api
strategiesBasic == <<"github.com", "wikipedia.org", "docs.python.org", "stackoverflow.com">>
strategiesDynamic == <<"instagram.com", "x.com", "twitter.com", "linkedin.com", "facebook.com">>
\* strategies.api without the entry of reddit.com
strategiesApiWithoutReddit == {"github.com", "news.ycombinator.com"}

strategiesApi == {"github.com", "reddit.com", "news.ycombinator.com"}

\* `domain in this.strategies.api` also answers true for the property
\* names every object literal inherits from Object.prototype
ObjectPrototypeKeys ==
    {"constructor", "toString", "valueOf", "hasOwnProperty", "isPrototypeOf",
     "propertyIsEnumerable", "toLocaleString", "__proto__"}

InApiStrategies(domain) == domain \in strategiesApi \cup ObjectPrototypeKeys

\* '='.repeat(30)
Separator == Repeat("=", 30)

\* the warning of Tier 3 (the source starts it with a warning-sign glyph)
DynamicWarning ==
    "\n\n(!) Note: This site loads content dynamically. Some information may be missing."

(***************************************************************************)
(* Pure methods                                                            *)
(***************************************************************************)
\* NormalizeUrl testing for 'http://' only
NormalizeUrlHttpOnly(url) == IF StartsWith(url, "http://") THEN url ELSE "https://" \o url

\* const normalizedUrl = url.startsWith('http') ? url : `https://${url}`
NormalizeUrl(url) == IF StartsWith(url, "http") THEN url ELSE "https://" \o url

\* getCacheKey looking for '/api/' in the whole address
getCacheKeyWholeAddress(url) ==
    LET urlObj == ParseURL(url)
    IN  IF ~urlObj.ok THEN url
        ELSE IF Includes(url, "/api/") THEN url
        ELSE urlObj.hostname \o urlObj.pathname

\* getCacheKey on the host without its leading www.
getCacheKeyBareDomain(url) ==
    LET urlObj == ParseURL(url)
    IN  IF ~urlObj.ok THEN url
        ELSE IF Includes(urlObj.pathname, "/api/") THEN url
        ELSE ReplaceFirst(urlObj.hostname, "www.", "") \o urlObj.pathname

getCacheKey(url) ==
    LET urlObj == ParseURL(url)
    IN  IF ~urlObj.ok THEN url
        ELSE IF Includes(urlObj.pathname, "/api/") THEN url
        ELSE urlObj.hostname \o urlObj.pathname

\* getCacheTTL with the test of the host before the test of the path
getCacheTTLHostFirst(url) ==
    LET urlObj == ParseURL(url)
    IN  IF ~urlObj.ok THEN 3600
        ELSE IF Includes(urlObj.hostname, "github.com") THEN 1800
        ELSE IF Includes(urlObj.pathname, "/feed") \/ Includes(urlObj.pathname, "/timeline")
             THEN 300
        ELSE IF Includes(urlObj.hostname, "news") \/ Includes(urlObj.hostname, "reddit")
             THEN 600
        ELSE 3600

getCacheTTL(url) ==
    LET urlObj == ParseURL(url)
    IN  IF ~urlObj.ok THEN 3600
        ELSE IF Includes(urlObj.pathname, "/feed") \/ Includes(urlObj.pathname, "/timeline")
             THEN 300
        ELSE IF Includes(urlObj.hostname, "github.com") THEN 1800
        ELSE IF Includes(urlObj.hostname, "news") \/ Includes(urlObj.hostname, "reddit")
             THEN 600
        ELSE 3600

\* DomainOf without the removal of the leading www.
DomainOfKeepsWww(url) == ParseURL(url).hostname

\* new URL(normalizedUrl).hostname.replace('www.', '')
DomainOf(url) == ReplaceFirst(ParseURL(url).hostname, "www.", "")

\* total length of content.mainContent.join('')
MainLength(mainContent) == Len(Join(mainContent, ""))

\* calculateConfidence adding 0.2 for the profile and without the Math.min
calculateConfidenceUncapped(content) ==
    LET s1 == IF Len(content.jsonLd) > 0 THEN 30 ELSE 0
        s2 == s1 + (IF content.metaData.title # "" THEN 20 ELSE 0)
        s3 == s2 + (IF content.metaData.description # "" THEN 10 ELSE 0)
        totalLength == MainLength(content.mainContent)
        s4 == s3 + (IF Len(content.mainContent) > 0
                    THEN (IF totalLength > 500 THEN 30
                          ELSE IF totalLength > 200 THEN 20
                          ELSE IF totalLength > 50 THEN 10
                          ELSE 0)
                    ELSE 0)
    IN  s4 + (IF content.hasGithubData /\ content.githubData.username # ""
              THEN 20 ELSE 0)

\* calculateConfidence testing the lowest length threshold first
calculateConfidenceLowestFirst(content) ==
    LET s1 == IF Len(content.jsonLd) > 0 THEN 30 ELSE 0
        s2 == s1 + (IF content.metaData.title # "" THEN 20 ELSE 0)
        s3 == s2 + (IF content.metaData.description # "" THEN 10 ELSE 0)
        totalLength == MainLength(content.mainContent)
        s4 == s3 + (IF Len(content.mainContent) > 0
                    THEN (IF totalLength > 50 THEN 10
                          ELSE IF totalLength > 200 THEN 20
                          ELSE IF totalLength > 500 THEN 30
                          ELSE 0)
                    ELSE 0)
        s5 == s4 + (IF content.hasGithubData /\ content.githubData.username # ""
                    THEN 10 ELSE 0)
    IN  Min(s5, 100)

calculateConfidence(content) ==
    LET s1 == IF Len(content.jsonLd) > 0 THEN 30 ELSE 0
        s2 == s1 + (IF content.metaData.title # "" THEN 20 ELSE 0)
        s3 == s2 + (IF content.metaData.description # "" THEN 10 ELSE 0)
        totalLength == MainLength(content.mainContent)
        s4 == s3 + (IF Len(content.mainContent) > 0
                    THEN (IF totalLength > 500 THEN 30
                          ELSE IF totalLength > 200 THEN 20
                          ELSE IF totalLength > 50 THEN 10
                          ELSE 0)
                    ELSE 0)
        s5 == s4 + (IF content.hasGithubData /\ content.githubData.username # ""
                    THEN 10 ELSE 0)
    IN  Min(s5, 100)

(***************************************************************************)
(* formatContent: the text built from an extracted content object          *)
(***************************************************************************)
\* the array holding x when cond holds, the empty array otherwise
When(cond, x) == IF cond THEN <<x>> ELSE <<>>

\* the lines pushed by the forEach over content.jsonLd: JSON.parse of the
\* block, a line for its '@type' when it parses and has one
RECURSIVE JsonLdLines(_)
JsonLdLines(jsonLd) ==
    IF Len(jsonLd) = 0 THEN <<>>
    ELSE When(jsonLd[1].parses /\ jsonLd[1].type # "", "- " \o jsonLd[1].type)
         \o JsonLdLines(Tail(jsonLd))

formatContent(content) ==
    LET parts ==
            When(content.metaData.title # "", "Title: " \o content.metaData.title)
         \o When(content.metaData.description # "",
                 "Description: " \o content.metaData.description)
         \o (IF content.hasGithubData
             THEN <<"\nGitHub Profile Data:">>
                  \o When(content.githubData.username # "",
                          "Username: " \o content.githubData.username)
                  \o When(content.githubData.bio # "", "Bio: " \o content.githubData.bio)
                  \o When(Len(content.githubData.stats) > 0,
                          "Stats: " \o Join(content.githubData.stats, ", "))
             ELSE <<>>)
         \o (IF Len(content.mainContent) > 0
             THEN <<"\nMain Content:">> \o Slice0(content.mainContent, 5)
             ELSE <<>>)
         \o (IF Len(content.jsonLd) > 0
             THEN <<"\nStructured Data Found:">> \o JsonLdLines(content.jsonLd)
             ELSE <<>>)
    IN  OrElse(Join(parts, "\n"), "No content found")

(***************************************************************************)
(* enhancedBasicScrape after its axios.get has resolved.  A page is what   *)
(* the cheerio queries of the method find in the fetched document:         *)
(*   jsonLd        script[type="application/ld+json"] bodies, each with    *)
(*                 whether JSON.parse accepts it and its '@type'           *)
(*   ogTitle, twitterTitle, titleText, ogDescription, metaDescription,     *)
(*   twitterDescription      the meta tags and <title> ("" when absent)    *)
(*   mainContent   the result of extractMainContent                        *)
(*   pNickname, additionalName, pNote, itempropDescription, counters       *)
(*                 the GitHub profile selectors                            *)
(***************************************************************************)
\* ExtractContent taking the title element before the meta tags
ExtractContentTitleFirst(url, page) ==
    [jsonLd |-> page.jsonLd,
     metaData |->
        [title |-> OrElse(page.titleText, OrElse(page.ogTitle, page.twitterTitle)),
         description |-> OrElse(page.ogDescription,
                                OrElse(page.metaDescription, page.twitterDescription))],
     mainContent |-> page.mainContent,
     hasGithubData |-> Includes(ParseURL(url).hostname, "github.com"),
     githubData |->
        [username |-> OrElse(page.pNickname, page.additionalName),
         bio |-> OrElse(page.pNote, page.itempropDescription),
         stats |-> page.counters]]

ExtractContent(url, page) ==
    [jsonLd |-> page.jsonLd,
     metaData |->
        [title |-> OrElse(page.ogTitle, OrElse(page.twitterTitle, page.titleText)),
         description |-> OrElse(page.ogDescription,
                                OrElse(page.metaDescription, page.twitterDescription))],
     mainContent |-> page.mainContent,
     hasGithubData |-> Includes(ParseURL(url).hostname, "github.com"),
     githubData |->
        [username |-> OrElse(page.pNickname, page.additionalName),
         bio |-> OrElse(page.pNote, page.itempropDescription),
         stats |-> page.counters]]

enhancedBasicScrape(url, page) ==
    LET content == ExtractContent(url, page)
    IN  [content |-> formatContent(content), confidence |-> calculateConfidence(content)]

(***************************************************************************)
(* scrapeViaAPI                                                            *)
(***************************************************************************)
\* urlObj.pathname.split('/').filter(Boolean)
RECURSIVE PathParts(_)
PathParts(pathname) ==
    IF pathname = "" THEN <<>>
    ELSE LET i == FirstOf(pathname, {"/"})
         IN  When(i > 1, SubSeq(pathname, 1, i - 1))
             \o PathParts(SubSeq(pathname, i + 1, Len(pathname)))

\* which branch of scrapeViaAPI issues requests for the address
ApiRoute(url) ==
    LET urlObj == ParseURL(url)
        domain == ReplaceFirst(urlObj.hostname, "www.", "")
    IN  IF Includes(domain, "github.com") /\ Len(PathParts(urlObj.pathname)) >= 1
        THEN "github"
        ELSE IF Includes(domain, "news.ycombinator.com")
                /\ (urlObj.pathname = "/" \/ urlObj.pathname = "/news")
        THEN "hackernews"
        ELSE "none"

\* event.type.replace(/Event$/, '')
StripEvent(type) ==
    IF EndsWith(type, "Event") THEN SubSeq(type, 1, Len(type) - 5) ELSE type

RECURSIVE RepoLines(_)
RepoLines(repos) ==
    IF Len(repos) = 0 THEN <<>>
    ELSE LET repo == repos[1]
         IN  <<"- " \o repo.name \o (IF repo.fork THEN " (fork)" ELSE "")>>
             \o When(repo.description # "", "  " \o repo.description)
             \o When(repo.language # "", "  Language: " \o repo.language)
             \o <<"  * " \o ToString(repo.stargazers_count)
                  \o " | Y " \o ToString(repo.forks_count)>>
             \o RepoLines(Tail(repos))

RECURSIVE EventLines(_)
EventLines(events) ==
    IF Len(events) = 0 THEN <<>>
    ELSE <<"- " \o StripEvent(events[1].type) \o " in " \o events[1].repo>>
         \o EventLines(Tail(events))

\* the block built from the three GitHub responses (the source marks the
\* star and fork counts with two glyphs, written * and Y here)
FormatGithub(username, user, repos, events) ==
    LET parts ==
            <<"GitHub Profile: " \o OrElse(user.name, username)>>
         \o When(user.bio # "", "Bio: " \o user.bio)
         \o When(user.company # "", "Company: " \o user.company)
         \o When(user.location # "", "Location: " \o user.location)
         \o When(user.blog # "", "Website: " \o user.blog)
         \o <<"\nStats:",
              "- Public Repos: " \o ToString(user.public_repos),
              "- Followers: " \o ToString(user.followers),
              "- Following: " \o ToString(user.following)>>
         \o (IF Len(repos) > 0
             THEN <<"\nRecent Repositories:">> \o RepoLines(Slice0(repos, 5))
             ELSE <<>>)
         \o (IF Len(events) > 0
             THEN <<"\nRecent Activity:">> \o EventLines(Slice0(events, 3))
             ELSE <<>>)
    IN  Join(parts, "\n")

RECURSIVE StoryLines(_, _)
StoryLines(stories, i) ==
    IF Len(stories) = 0 THEN <<>>
    ELSE LET story == stories[1]
         IN  <<ToString(i) \o ". " \o story.title,
               "   " \o ToString(story.score) \o " points | "
                     \o ToString(story.descendants) \o " comments">>
             \o When(story.url # "", "   " \o story.url)
             \o StoryLines(Tail(stories), i + 1)

FormatHackerNews(stories) ==
    Join(<<"Hacker News Top Stories:\n">> \o StoryLines(stories, 1), "\n")

(***************************************************************************)
(* scrapeViaAPI(url) once its requests have settled.  net holds what each  *)
(* request did: net.user, net.repos, net.events (GitHub) and net.list,     *)
(* net.items (Hacker News) are records with ok and data.  The result is    *)
(* [ok, content]; ok = FALSE is a rejection of the returned promise.       *)
(***************************************************************************)
\* scrapeViaAPI without the catch on the events request
scrapeViaAPIAllOrNothing(url, net) ==
    LET urlObj   == ParseURL(url)
        route    == ApiRoute(url)
        username == PathParts(urlObj.pathname)[1]
    IN  IF route = "github"
        THEN IF net.user.ok /\ net.repos.ok /\ net.events.ok
             THEN [ok |-> TRUE,
                   content |-> FormatGithub(username, net.user.data, net.repos.data,
                                            net.events.data)]
             ELSE [ok |-> FALSE, content |-> ""]
        ELSE IF route = "hackernews" /\ net.list.ok /\ net.items.ok
        THEN [ok |-> TRUE, content |-> FormatHackerNews(Slice0(net.items.data, 10))]
        ELSE [ok |-> FALSE, content |-> ""]

\* scrapeViaAPI answering with what it has when the repos request failed
scrapeViaAPITolerant(url, net) ==
    LET urlObj   == ParseURL(url)
        route    == ApiRoute(url)
        username == PathParts(urlObj.pathname)[1]
        repos    == IF net.repos.ok THEN net.repos.data ELSE <<>>
        events   == IF net.events.ok THEN net.events.data ELSE <<>>
    IN  IF route = "github"
        THEN IF net.user.ok
             THEN [ok |-> TRUE,
                   content |-> FormatGithub(username, net.user.data, repos, events)]
             ELSE [ok |-> FALSE, content |-> ""]
        ELSE IF route = "hackernews" /\ net.list.ok /\ net.items.ok
        THEN [ok |-> TRUE, content |-> FormatHackerNews(Slice0(net.items.data, 10))]
        ELSE [ok |-> FALSE, content |-> ""]

scrapeViaAPI(url, net) ==
    LET urlObj   == ParseURL(url)
        route    == ApiRoute(url)
        username == PathParts(urlObj.pathname)[1]
        events   == IF net.events.ok THEN net.events.data ELSE <<>>
    IN  IF route = "github"
        THEN IF net.user.ok /\ net.repos.ok
             THEN [ok |-> TRUE,
                   content |-> FormatGithub(username, net.user.data, net.repos.data, events)]
             ELSE [ok |-> FALSE, content |-> ""]
        ELSE IF route = "hackernews" /\ net.list.ok /\ net.items.ok
        THEN [ok |-> TRUE, content |-> FormatHackerNews(Slice0(net.items.data, 10))]
        ELSE [ok |-> FALSE, content |-> ""]

(***************************************************************************)
(* The cache: the Map of the class as the sequence of its entries in       *)
(* insertion order, each entry carrying its key                            *)
(***************************************************************************)
\* this.cache.get(key): the entry in a one-element array, or the empty array
CacheGet(c, key) == SelectSeq(c, LAMBDA e : e.key = key)

\* CacheAfterGet moving the entry read to the end of the order
CacheAfterGetRefreshing(c, key) == SelectSeq(c, LAMBDA e : e.key # key) \o CacheGet(c, key)

\* the Map after this.cache.get(key): a read changes neither the entries
\* nor their order
CacheAfterGet(c, key) == c

\* this.cache.delete(key)
CacheDelete(c, key) == SelectSeq(c, LAMBDA e : e.key # key)

\* this.cache.set(key, value): an existing key keeps its place in the order
CacheSet(c, entry) ==
    IF \E i \in 1..Len(c) : c[i].key = entry.key
    THEN [i \in 1..Len(c) |-> IF c[i].key = entry.key THEN entry ELSE c[i]]
    ELSE Append(c, entry)

\* SortByTimestamp with the comparison b[1].timestamp - a[1].timestamp
SortByTimestampDescending(entries) ==
    LET Before(j, i) ==
            \/ entries[j].timestamp > entries[i].timestamp
            \/ entries[j].timestamp = entries[i].timestamp /\ j < i
        Rank(i) == 1 + Cardinality({j \in 1..Len(entries) : Before(j, i)})
    IN  [k \in 1..Len(entries) |->
            entries[CHOOSE i \in 1..Len(entries) : Rank(i) = k]]

\* Array.prototype.sort((a, b) => a[1].timestamp - b[1].timestamp): the
\* sort is stable, so an entry comes after those with a smaller timestamp
\* and after the earlier ones with the same timestamp
SortByTimestamp(entries) ==
    LET Before(j, i) ==
            \/ entries[j].timestamp < entries[i].timestamp
            \/ entries[j].timestamp = entries[i].timestamp /\ j < i
        Rank(i) == 1 + Cardinality({j \in 1..Len(entries) : Before(j, i)})
    IN  [k \in 1..Len(entries) |->
            entries[CHOOSE i \in 1..Len(entries) : Rank(i) = k]]

\* EvictOldest choosing the entries that expire first
EvictExpiringFirst(c) ==
    LET Before(j, i) ==
            \/ c[j].timestamp + c[j].ttl < c[i].timestamp + c[i].ttl
            \/ c[j].timestamp + c[j].ttl = c[i].timestamp + c[i].ttl /\ j < i
        victims == {c[i].key : i \in {k \in 1..Len(c) :
                        Cardinality({j \in 1..Len(c) : Before(j, k)}) < 5}}
    IN  SelectSeq(c, LAMBDA e : e.key \notin victims)

\* Math.ceil(this.cacheSizeLimit * 0.1)
ToRemove == (cacheSizeLimit + 9) \div 10

\* the for loop of updateCache: delete the keys of entries[0 .. toRemove-1]
EvictOldest(c) ==
    LET entries == SortByTimestamp(c)
        victims == {entries[i].key : i \in 1..ToRemove}
    IN  SelectSeq(c, LAMBDA e : e.key \notin victims)

\* NeedsEviction with > for >=
NeedsEvictionStrict(c) == Len(c) > cacheSizeLimit

\* if (this.cache.size >= this.cacheSizeLimit)
NeedsEviction(c) == Len(c) >= cacheSizeLimit

\* updateCache preceded by a sweep of the entries that have expired
updateCacheSweeping(c, key, content, ttl, now) ==
    CacheSet(LET live == SelectSeq(c, LAMBDA e : now - e.timestamp < e.ttl)
             IN  IF NeedsEviction(live) THEN EvictOldest(live) ELSE live,
             [key |-> key, content |-> content, timestamp |-> now, ttl |-> ttl])

\* updateCache making room only for a key the cache does not hold
updateCacheSparingKnownKey(c, key, content, ttl, now) ==
    CacheSet(IF NeedsEviction(c) /\ CacheGet(c, key) = <<>> THEN EvictOldest(c) ELSE c,
             [key |-> key, content |-> content, timestamp |-> now, ttl |-> ttl])

updateCache(c, key, content, ttl, now) ==
    CacheSet(IF NeedsEviction(c) THEN EvictOldest(c) ELSE c,
             [key |-> key, content |-> content, timestamp |-> now, ttl |-> ttl])

(***************************************************************************)
(* The tests and texts of scrapeWebsite                                    *)
(***************************************************************************)
\* IsCacheHit with <= for <
IsCacheHitInclusive(cached, now) ==
    Len(cached) > 0 /\ now - cached[1].timestamp <= cached[1].ttl

\* if (cached && (now - cached.timestamp) < cached.ttl)
IsCacheHit(cached, now) ==
    Len(cached) > 0 /\ now - cached[1].timestamp < cached[1].ttl

\* Tier2Applies with >= for >
Tier2AppliesInclusive(confidence, domain) ==
    confidence >= 50 \/ ArrayIncludes(strategiesBasic, domain)

\* if (confidence > 0.5 || this.strategies.basic.includes(domain))
Tier2Applies(confidence, domain) ==
    confidence > 50 \/ ArrayIncludes(strategiesBasic, domain)

\* if (this.strategies.dynamic.includes(domain))
Tier3Applies(domain) == ArrayIncludes(strategiesDynamic, domain)

\* DynamicTTL without the Math.min
DynamicTTLUncapped(url) == getCacheTTL(url)

\* Math.min(this.getCacheTTL(normalizedUrl), 600)
DynamicTTL(url) == Min(getCacheTTL(url), 600)

\* if (cached && errorMessage.includes('ETIMEDOUT'))
TimeoutFallbackApplies(cached, errorMessage) ==
    Len(cached) > 0 /\ Includes(errorMessage, "ETIMEDOUT")

\* CachedText labelled with the content instead of the address
CachedTextMislabelled(url, content) ==
    "Cached content from " \o content \o ":\n" \o Separator \o "\n" \o url

CachedText(url, content) ==
    "Cached content from " \o url \o ":\n" \o Separator \o "\n" \o content

ApiText(url, content) ==
    "API content from " \o url \o ":\n" \o Separator \o "\n" \o content

\* (confidence * 100).toFixed(0) is the score in hundredths
ConfidenceText(url, confidence, content) ==
    "Scraped content from " \o url \o " (confidence: " \o ToString(confidence)
    \o "%):\n" \o Separator \o "\n" \o content

DynamicText(url, content) ==
    "Scraped content from " \o url \o " (dynamic site):\n" \o Separator \o "\n" \o content

\* LowConfidenceText without the separator line
LowConfidenceTextBare(url, content) == "Scraped content from " \o url \o ": " \o content

LowConfidenceText(url, content) ==
    "Scraped content from " \o url \o ":\n" \o Separator \o "\n" \o content

TimeoutText(url, content) ==
    "Cached content from " \o url \o " (network timeout):\n" \o Separator \o "\n" \o content

ErrorText(url, errorMessage) == "Error scraping " \o url \o ": " \o errorMessage

\* the catch block of scrapeWebsite
CatchText(c, url, cacheKey, errorMessage) ==
    LET cached == CacheGet(c, cacheKey)
    IN  IF TimeoutFallbackApplies(cached, errorMessage)
        THEN TimeoutText(url, cached[1].content)
        ELSE ErrorText(url, errorMessage)

\* Decide storing the content of a dynamic site without its warning
DecideStoringBare(url, domain, scraped) ==
    IF Tier2Applies(scraped.confidence, domain)
    THEN [tier |-> "confident", content |-> scraped.content, ttl |-> getCacheTTL(url),
          text |-> ConfidenceText(url, scraped.confidence, scraped.content)]
    ELSE IF Tier3Applies(domain)
    THEN [tier |-> "dynamic", content |-> scraped.content,
          ttl |-> DynamicTTL(url),
          text |-> DynamicText(url, scraped.content \o DynamicWarning)]
    ELSE [tier |-> "low", content |-> scraped.content, ttl |-> getCacheTTL(url),
          text |-> LowConfidenceText(url, scraped.content)]

\* the decision taken once enhancedBasicScrape has returned: the cache
\* write (content, ttl) and the text returned
Decide(url, domain, scraped) ==
    IF Tier2Applies(scraped.confidence, domain)
    THEN [tier |-> "confident", content |-> scraped.content, ttl |-> getCacheTTL(url),
          text |-> ConfidenceText(url, scraped.confidence, scraped.content)]
    ELSE IF Tier3Applies(domain)
    THEN [tier |-> "dynamic", content |-> scraped.content \o DynamicWarning,
          ttl |-> DynamicTTL(url),
          text |-> DynamicText(url, scraped.content \o DynamicWarning)]
    ELSE [tier |-> "low", content |-> scraped.content, ttl |-> getCacheTTL(url),
          text |-> LowConfidenceText(url, scraped.content)]

(***************************************************************************)
(* The environment: tool arguments, fetched pages, API data, failures      *)
(***************************************************************************)
\* the url arguments of scrape_website that are explored
Addresses ==
    {"example.com",
     "https://github.com/octocat", "https://www.github.com/octocat",
     "https://github.com", "https://news.ycombinator.com/",
     "https://news.ycombinator.com/item?id=1", "https://reddit.com/r/tla",
     "https://x.com/feed", "https://instagram.com/p", "httpbin.org",
     "https://f1.example/", "http://f1.example/", "https://f50.example/feed"}

\* the arguments of a scrape_website call: the JSON object may lack url,
\* the handler casts it without a check
ScrapeArgs == {[url |-> a] : a \in Addresses} \cup {<<>>}

NoPage ==
    [jsonLd |-> <<>>, ogTitle |-> "", twitterTitle |-> "", titleText |-> "",
     ogDescription |-> "", metaDescription |-> "", twitterDescription |-> "",
     mainContent |-> <<>>, pNickname |-> "", additionalName |-> "", pNote |-> "",
     itempropDescription |-> "", counters |-> <<>>]

\* structured data, title, description and 240 characters of text: 0.8
PageRich ==
    [NoPage EXCEPT !.jsonLd = <<[parses |-> TRUE, type |-> "Article"]>>,
                   !.ogTitle = "Rich", !.titleText = "Rich page",
                   !.metaDescription = "An article",
                   !.mainContent = <<Repeat("lorem ipsum ", 10), Repeat("dolor sit amet ", 8)>>]

\* a title and 504 characters of text: exactly 0.5
PageHalf ==
    [NoPage EXCEPT !.titleText = "Half", !.mainContent = <<Repeat("lorem ipsum ", 42)>>]

Pages == {PageRich, PageHalf}

\* the message axios rejects with when the timer of the timeout option of
\* the page fetch expires (error code ECONNABORTED)
TimerMessage == "timeout of " \o ToString(FetchTimeout * 1000) \o "ms exceeded"

\* messages of the errors axios rejects with: a TCP connect that timed
\* out, the timer of the timeout option, a status >= 400
FetchErrors ==
    {"connect ETIMEDOUT 93.184.216.34:443", TimerMessage,
     "Request failed with status code 404"}

FetchOutcomes ==
    {[ok |-> TRUE, page |-> pg, message |-> ""] : pg \in Pages}
    \cup {[ok |-> FALSE, page |-> NoPage, message |-> m] : m \in FetchErrors}

ApiUser ==
    [name |-> "The Octocat", bio |-> "", company |-> "@github", location |-> "",
     blog |-> "", public_repos |-> 8, followers |-> 9, following |-> 0]

ApiRepos ==
    <<[name |-> "hello-world", fork |-> FALSE, description |-> "My first repository",
       language |-> "", stargazers_count |-> 3, forks_count |-> 1]>>

ApiEvents == <<[type |-> "PushEvent", repo |-> "octocat/hello-world"]>>

ApiStories ==
    <<[title |-> "Show HN", score |-> 42, descendants |-> 0, url |-> ""],
      [title |-> "TLA+ in practice", score |-> 7, descendants |-> 3,
       url |-> "https://lamport.org/tla"]>>

\* what the requests of one scrapeViaAPI call did
AllOk ==
    [user |-> [ok |-> TRUE, data |-> ApiUser], repos |-> [ok |-> TRUE, data |-> ApiRepos],
     events |-> [ok |-> TRUE, data |-> ApiEvents],
     list |-> [ok |-> TRUE], items |-> [ok |-> TRUE, data |-> ApiStories]]

GithubNets ==
    {AllOk, [AllOk EXCEPT !.events.ok = FALSE], [AllOk EXCEPT !.user.ok = FALSE],
     [AllOk EXCEPT !.repos.ok = FALSE],
     [AllOk EXCEPT !.user.ok = FALSE, !.events.ok = FALSE]}

HackerNewsNets ==
    {AllOk, [AllOk EXCEPT !.items.ok = FALSE], [AllOk EXCEPT !.list.ok = FALSE]}

ApiNets(route) == IF route = "github" THEN GithubNets ELSE HackerNewsNets

\* requests issued when scrapeViaAPI starts: the three of Promise.all, or
\* the top-stories list
ApiRequests(route) == IF route = "github" THEN 3 ELSE 1

(***************************************************************************)
(* State                                                                   *)
(***************************************************************************)
VARIABLES
    clock,                  \* Date.now() / 1000
    cache,                  \* this.cache
    lastConnectivityCheck,  \* this.lastConnectivityCheck: <<>> is null
    slots,                  \* the tool calls in progress, suspended at an await
    last,                   \* the tool call that completed most recently
    calls,                  \* scrape_website and check_internet calls issued so far
    dropped,                \* keys removed by reset_cache and not written since
    keysUsed,               \* cache keys the scrape_website calls address
    ticks,                  \* passages of time so far
    memoCleared,            \* reset_cache has run and no check_internet call since
    pure,                   \* the last evaluation of a pure method on its own
    repo                    \* the repo-context server: this.repoPath and its last call

vars ==
    <<clock, cache, lastConnectivityCheck, slots, last, calls, dropped, keysUsed, ticks,
      memoCleared, pure, repo>>

Slots == 1..NumSlots

IdleSlot ==
    [pc |-> "idle", name |-> "", normalizedUrl |-> "", cacheKey |-> "", now |-> 0,
     requests |-> 0, apiFailed |-> FALSE, apiOk |-> FALSE, seen |-> <<>>,
     cold |-> FALSE]

\* the record of a completed call: how it ended (status "text" or "threw"),
\* the text returned or the message thrown, and what it did on the way
NoCall ==
    [name |-> "", status |-> "none", text |-> "", normalizedUrl |-> "",
     cacheKey |-> "", now |-> 0, requests |-> 0, apiFailed |-> FALSE,
     apiOk |-> FALSE, seen |-> <<>>, cold |-> FALSE,
     tier |-> "", confidence |-> 0, errorMessage |-> "", stale |-> <<>>,
     coldAtCatch |-> FALSE, wrote |-> <<>>, sizeBefore |-> 0, probe |-> <<>>]

\* the record of the call of slot s ending with the given text
Returned(s, text) ==
    [NoCall EXCEPT !.name = s.name, !.status = "text", !.text = text,
                   !.normalizedUrl = s.normalizedUrl, !.cacheKey = s.cacheKey,
                   !.now = s.now, !.requests = s.requests, !.apiFailed = s.apiFailed,
                   !.apiOk = s.apiOk, !.seen = s.seen, !.cold = s.cold]

Threw(name, message) ==
    [NoCall EXCEPT !.name = name, !.status = "threw", !.text = message]

\* the repo-context server as constructed (repoPath = ''), no tool called:
\* the record holds this.repoPath and, of the tool call that completed most
\* recently, its name, how it ended, its text, the paths it handed to fs
\* (touched) and the files whose content it read (read)
NoRepoCall ==
    [repoPath |-> "", name |-> "", status |-> "none", text |-> "", touched |-> {},
     read |-> {}]

\* no pure method has been evaluated on its own
NoEvaluation == [method |-> "", input |-> <<>>, output |-> <<>>]

Init ==
    /\ clock = 0
    /\ cache = <<>>
    /\ lastConnectivityCheck = <<>>
    /\ slots = [p \in Slots |-> IdleSlot]
    /\ last = NoCall
    /\ calls = 0
    /\ dropped = {}
    /\ keysUsed = {}
    /\ ticks = 0
    /\ memoCleared = FALSE
    /\ pure = NoEvaluation
    /\ repo = NoRepoCall

(***************************************************************************)
(* The handler of CallToolRequestSchema.  A call runs from its start to    *)
(* its first await in one step, and from the settling of the awaited       *)
(* requests to its next await or its return in one step.                   *)
(***************************************************************************)
\* a new call takes the first slot that holds no call in progress
FreeSlot(p) ==
    /\ slots[p].pc = "idle"
    /\ \A q \in Slots : q < p => slots[q].pc # "idle"

\* slot p is freed and its call recorded as the last completed one
Complete(p, record) ==
    /\ last' = record
    /\ slots' = [slots EXCEPT ![p] = IdleSlot]

\* the record of a scrape_website call that ran into the catch block
Caught(c, s, errorMessage) ==
    [Returned(s, CatchText(c, s.normalizedUrl, s.cacheKey, errorMessage))
        EXCEPT !.errorMessage = errorMessage, !.stale = CacheGet(c, s.cacheKey),
               !.coldAtCatch = s.cacheKey \in dropped]

\* the record of a scrape_website call that wrote the cache, which held
\* sizeBefore entries, and returned
Stored(s, tier, confidence, content, ttl, now, text, sizeBefore) ==
    [Returned(s, text)
        EXCEPT !.tier = tier, !.confidence = confidence,
               !.wrote = <<[key |-> s.cacheKey, content |-> content,
                            timestamp |-> now, ttl |-> ttl]>>,
               !.sizeBefore = sizeBefore]

\* Tier1Catch trying the API again instead of going on to Tier 2
Tier1CatchRetries(s) ==
    [s EXCEPT !.pc = "api", !.apiFailed = TRUE,
              !.requests = @ + ApiRequests(ApiRoute(s.normalizedUrl))]

\* catch (apiError) of Tier 1: the error is logged and the method goes on
\* to Tier 2, whose enhancedBasicScrape issues the page fetch
Tier1Catch(s) ==
    [s EXCEPT !.pc = "fetch", !.apiFailed = TRUE, !.requests = @ + 1]

\* whether the requests scrapeViaAPI cannot do without have succeeded
EssentialOk(route, net) ==
    IF route = "github" THEN net.user.ok /\ net.repos.ok
    ELSE net.list.ok /\ net.items.ok

\* the cache keys a scrape_website call with these arguments addresses
ArgKeys(args) ==
    IF "url" \in DOMAIN args THEN {getCacheKey(NormalizeUrl(args.url))} ELSE {}

\* case 'scrape_website': scrapeWebsite(args.url) up to its first await
CallScrape(p, args) ==
    /\ FreeSlot(p)
    /\ calls < MaxCalls
    /\ calls' = calls + 1
    /\ UNCHANGED <<clock, lastConnectivityCheck, dropped, ticks, memoCleared, pure, repo>>
    /\ cache' = IF "url" \in DOMAIN args
                THEN CacheAfterGet(cache, getCacheKey(NormalizeUrl(args.url)))
                ELSE cache
    /\ keysUsed' = keysUsed \cup ArgKeys(args)
    /\ Cardinality(keysUsed') <= MaxKeys
    /\ IF "url" \notin DOMAIN args
       THEN \* url.startsWith on undefined, before the try block
            /\ last' = Threw("scrape_website",
                             "Cannot read properties of undefined (reading 'startsWith')")
            /\ UNCHANGED slots
       ELSE LET normalizedUrl == NormalizeUrl(args.url)
                now      == clock
                cacheKey == getCacheKey(normalizedUrl)
                cached   == CacheGet(cache, cacheKey)
                s == [IdleSlot EXCEPT !.name = "scrape_website",
                                      !.normalizedUrl = normalizedUrl,
                                      !.cacheKey = cacheKey, !.now = now,
                                      !.seen = cached,
                                      !.cold = cacheKey \in dropped]
            IN  IF IsCacheHit(cached, now)
                THEN Complete(p, Returned(s, CachedText(normalizedUrl, cached[1].content)))
                ELSE IF ~ParseURL(normalizedUrl).ok
                THEN \* new URL(normalizedUrl) throws inside the try block
                     Complete(p, Caught(cache, s, "Invalid URL"))
                ELSE IF InApiStrategies(DomainOf(normalizedUrl))
                        /\ ApiRoute(normalizedUrl) # "none"
                THEN /\ slots' = [slots EXCEPT ![p] =
                            [s EXCEPT !.pc = "api",
                                      !.requests = ApiRequests(ApiRoute(normalizedUrl))]]
                     /\ UNCHANGED last
                ELSE IF InApiStrategies(DomainOf(normalizedUrl))
                THEN \* scrapeViaAPI threw 'No API available for this site' without a request
                     /\ slots' = [slots EXCEPT ![p] = Tier1Catch(s)]
                     /\ UNCHANGED last
                ELSE \* no API tier: Tier 2 issues the page fetch
                     /\ slots' = [slots EXCEPT ![p] =
                            [s EXCEPT !.pc = "fetch", !.requests = 1]]
                     /\ UNCHANGED last

\* the requests of scrapeViaAPI have settled: Tier 1 of scrapeWebsite
ApiReturn(p, net) ==
    LET s      == slots[p]
        route  == ApiRoute(s.normalizedUrl)
        result == scrapeViaAPI(s.normalizedUrl, net)
        ttl    == getCacheTTL(s.normalizedUrl)
        items  == IF route = "hackernews" /\ net.list.ok
                  THEN Len(Slice0(net.items.data, 10)) ELSE 0
        t      == [s EXCEPT !.requests = @ + items,
                            !.apiOk = EssentialOk(route, net)]
    IN  /\ s.pc = "api"
        /\ net \in ApiNets(route)
        /\ UNCHANGED <<clock, lastConnectivityCheck, calls, keysUsed, ticks, memoCleared,
                       pure, repo>>
        /\ IF result.ok
           THEN /\ cache' = updateCache(cache, s.cacheKey, result.content, ttl, clock)
                /\ dropped' = dropped \ {s.cacheKey}
                /\ Complete(p, Stored(t, "api", 0, result.content, ttl, clock,
                                      ApiText(s.normalizedUrl, result.content),
                                      Len(cache)))
           ELSE /\ slots' = [slots EXCEPT ![p] = Tier1Catch(t)]
                /\ UNCHANGED <<cache, dropped, last>>

\* the axios.get of enhancedBasicScrape has settled: Tier 2, Tier 3, catch
FetchReturn(p, outcome) ==
    LET s       == slots[p]
        scraped == enhancedBasicScrape(s.normalizedUrl, outcome.page)
        d       == Decide(s.normalizedUrl, DomainOf(s.normalizedUrl), scraped)
    IN  /\ s.pc = "fetch"
        /\ IF outcome.message = TimerMessage
           THEN clock >= s.now + FetchTimeout
           ELSE clock <= s.now + FetchTimeout
        /\ UNCHANGED <<clock, lastConnectivityCheck, calls, keysUsed, ticks, memoCleared,
                       pure, repo>>
        /\ IF outcome.ok
           THEN /\ cache' = updateCache(cache, s.cacheKey, d.content, d.ttl, clock)
                /\ dropped' = dropped \ {s.cacheKey}
                /\ Complete(p, Stored(s, d.tier, scraped.confidence, d.content,
                                      d.ttl, clock, d.text, Len(cache)))
           ELSE /\ Complete(p, Caught(cache, s, outcome.message))
                /\ UNCHANGED <<cache, dropped>>

\* MemoIsFresh with <= for <
MemoIsFreshInclusive(memo, now) ==
    Len(memo) > 0 /\ now - memo[1].timestamp <= connectivityTTL

\* the memoized answer of checkInternetConnection can be reused
MemoIsFresh(memo, now) ==
    Len(memo) > 0 /\ now - memo[1].timestamp < connectivityTTL

InternetText(isConnected) ==
    "Internet: " \o (IF isConnected THEN "Connected" ELSE "Offline")

\* case 'check_internet': checkInternetConnection up to its await
CallCheckInternet(p) ==
    LET s == [IdleSlot EXCEPT !.name = "check_internet", !.now = clock,
                              !.seen = lastConnectivityCheck, !.cold = memoCleared]
    IN  /\ FreeSlot(p)
        /\ calls < MaxCalls
        /\ calls' = calls + 1
        /\ memoCleared' = FALSE
        /\ UNCHANGED <<clock, cache, lastConnectivityCheck, dropped, keysUsed, ticks, pure, repo>>
        /\ IF MemoIsFresh(lastConnectivityCheck, clock)
           THEN Complete(p, Returned(s, InternetText(lastConnectivityCheck[1].isConnected)))
           ELSE /\ slots' = [slots EXCEPT ![p] = [s EXCEPT !.pc = "probe", !.requests = 1]]
                /\ UNCHANGED last

\* axios.head resolves for a status from 200 to 299 and rejects otherwise:
\* for another status, or without a response (status 0: timeout, DNS
\* failure, refused connection)
ProbeOutcomes ==
    {[ok |-> TRUE, status |-> 200], [ok |-> FALSE, status |-> 503],
     [ok |-> FALSE, status |-> 0]}

\* ProbeMemo with a catch block that leaves the memo as it is
ProbeMemoKeptOnFailure(memo, outcome, now) ==
    IF outcome.ok
    THEN <<[isConnected |-> outcome.status < 300, timestamp |-> now]>>
    ELSE memo

\* this.lastConnectivityCheck as the try block or the catch block sets it
ProbeMemo(memo, outcome, now) ==
    <<[isConnected |-> outcome.ok /\ outcome.status < 300, timestamp |-> now]>>

\* the axios.head of checkInternetConnection has settled
ProbeReturn(p, outcome) ==
    LET s == slots[p]
        memo == ProbeMemo(lastConnectivityCheck, outcome, s.now)
    IN  /\ s.pc = "probe"
        /\ outcome.status # 0 => clock <= s.now + ProbeTimeout
        /\ lastConnectivityCheck' = memo
        /\ Complete(p, [Returned(s, InternetText(outcome.ok /\ memo[1].isConnected))
                           EXCEPT !.probe = <<outcome>>])
        /\ UNCHANGED <<clock, cache, calls, dropped, keysUsed, ticks, memoCleared, pure, repo>>

\* resetCache forgetting this.cache.clear()
resetCacheKeepsEntries == [cache |-> cache, lastConnectivityCheck |-> <<>>]

\* resetCache: the new values of this.cache and this.lastConnectivityCheck
resetCache == [cache |-> <<>>, lastConnectivityCheck |-> <<>>]

\* case 'reset_cache'
CallResetCache ==
    /\ cache' = resetCache.cache
    /\ lastConnectivityCheck' = resetCache.lastConnectivityCheck
    /\ dropped' = dropped \cup {cache[i].key : i \in 1..Len(cache)}
    /\ last' = [NoCall EXCEPT !.name = "reset_cache", !.status = "text",
                              !.text = "Cache cleared", !.now = clock]
    /\ memoCleared' = TRUE
    /\ UNCHANGED <<clock, slots, calls, keysUsed, ticks, pure, repo>>

UnknownTools == {"fetch_page"}

\* default: throw new Error(`Unknown tool: ${name}`)
CallUnknown(name) ==
    /\ last' = Threw(name, "Unknown tool: " \o name)
    /\ UNCHANGED <<clock, cache, lastConnectivityCheck, slots, calls, dropped, keysUsed, ticks,
                   memoCleared, pure, repo>>

\* the instants at which something changes for the engine: the last second
\* within and the first second past the lifetime of a cache entry or of the
\* connectivity memo, and the expiry of the timeout of a pending request
Deadlines ==
    UNION {{cache[i].timestamp + cache[i].ttl - 1, cache[i].timestamp + cache[i].ttl} :
           i \in 1..Len(cache)}
    \cup UNION {{lastConnectivityCheck[i].timestamp + connectivityTTL - 1,
                 lastConnectivityCheck[i].timestamp + connectivityTTL} :
                i \in 1..Len(lastConnectivityCheck)}
    \cup {slots[p].now + ProbeTimeout : p \in {q \in Slots : slots[q].pc = "probe"}}
    \cup {slots[p].now + FetchTimeout : p \in {q \in Slots : slots[q].pc = "fetch"}}
    \cup {slots[p].now + ApiTimeout :
          p \in {q \in Slots : slots[q].pc = "api"
                               /\ ApiRoute(slots[q].normalizedUrl) = "github"}}

\* time passes, up to an instant that matters
Tick ==
    /\ ticks < MaxTicks
    /\ ticks' = ticks + 1
    /\ \E t \in Deadlines : t > clock /\ t <= MaxClock /\ clock' = t
    /\ UNCHANGED <<cache, lastConnectivityCheck, slots, last, calls, dropped, keysUsed,
                   memoCleared, pure, repo>>

Next ==
    \/ \E p \in Slots, args \in ScrapeArgs : CallScrape(p, args)
    \/ \E p \in Slots, net \in GithubNets \cup HackerNewsNets : ApiReturn(p, net)
    \/ \E p \in Slots, outcome \in FetchOutcomes : FetchReturn(p, outcome)
    \/ \E p \in Slots : CallCheckInternet(p)
    \/ \E p \in Slots, outcome \in ProbeOutcomes : ProbeReturn(p, outcome)
    \/ CallResetCache
    \/ \E name \in UnknownTools : CallUnknown(name)
    \/ Tick

Spec == Init /\ [][Next]_vars

(***************************************************************************)
(* The engine with requests that keep their timeouts: a request issued     *)
(* with a timeout option settles, by its response, its failure or the      *)
(* expiry of the timer.  These are the probe (timeout: 3000), the three    *)
(* GitHub requests (timeout: 5000) and the page fetch (timeout: 10000).    *)
(* The Hacker News requests are issued without a timeout option, and       *)
(* axios then waits for as long as the connection stays open, so nothing   *)
(* obliges them to settle.  The client sends one request at a time.        *)
(***************************************************************************)
\* the calls of a client that sends one request at a time and waits for
\* its response (slot 1 only)
NextSerial ==
    \/ \E args \in ScrapeArgs : CallScrape(1, args)
    \/ \E net \in GithubNets \cup HackerNewsNets : ApiReturn(1, net)
    \/ \E outcome \in FetchOutcomes : FetchReturn(1, outcome)
    \/ CallCheckInternet(1)
    \/ \E outcome \in ProbeOutcomes : ProbeReturn(1, outcome)
    \/ FreeSlot(1) /\ CallResetCache
    \/ \E name \in UnknownTools : FreeSlot(1) /\ CallUnknown(name)
    \/ Tick

\* the three GitHub requests of scrapeViaAPI are pending
GithubPending(p) == slots[p].pc = "api" /\ ApiRoute(slots[p].normalizedUrl) = "github"

\* ApiReturn is enabled for the outcomes of GitHub exactly while
\* GithubPending holds and every ApiReturn step ends it, so its weak
\* fairness is that GithubPending does not hold for ever
TimedRequestsSettle ==
    /\ WF_vars(\E outcome \in ProbeOutcomes : ProbeReturn(1, outcome))
    /\ WF_vars(\E outcome \in FetchOutcomes : FetchReturn(1, outcome))
    /\ []<>~GithubPending(1)

SpecTimely == Init /\ [][NextSerial]_vars /\ TimedRequestsSettle

(***************************************************************************)
(* The engine after it has served many addresses: the cache holds 49 or 50 *)
(* entries, left by successful scrapes of https://f1.example/ ...          *)
(* https://f50.example/ in this order, the first 25 at second 0 and the    *)
(* others at second 1.  Every tenth address is a feed (TTL 300); the pages *)
(* had nothing to extract, so each was stored by the low-confidence branch.*)
(***************************************************************************)
FillerAddress(i) ==
    "https://f" \o ToString(i) \o ".example/" \o (IF i % 10 = 0 THEN "feed" ELSE "")

FillerEntry(i) ==
    LET url == FillerAddress(i)
        d   == Decide(url, DomainOf(url), enhancedBasicScrape(url, NoPage))
    IN  [key |-> getCacheKey(url), content |-> d.content,
         timestamp |-> IF i <= 25 THEN 0 ELSE 1, ttl |-> d.ttl]

FilledCache(n) == [i \in 1..n |-> FillerEntry(i + (cacheSizeLimit - n))]

\* the addresses scraped once the cache is that full: the oldest and the
\* newest address it holds, and one it does not hold, served by the API,
\* with and without www.
FullAddresses ==
    {"https://f1.example/", "https://f50.example/feed",
     "https://github.com/octocat", "https://www.github.com/octocat"}

InitFull ==
    /\ clock = 1
    /\ cache \in {FilledCache(cacheSizeLimit - 1), FilledCache(cacheSizeLimit)}
    /\ lastConnectivityCheck = <<>>
    /\ slots = [p \in Slots |-> IdleSlot]
    /\ last = NoCall
    /\ calls = 0
    /\ dropped = {}
    /\ keysUsed \in {{getCacheKey(NormalizeUrl(a))} : a \in FullAddresses}
    /\ ticks = 0
    /\ memoCleared = FALSE
    /\ pure = NoEvaluation
    /\ repo = NoRepoCall

SpecFull == InitFull /\ [][Next]_vars

(***************************************************************************)
(* The pure methods evaluated on their own: normalization (the first       *)
(* statement of scrapeWebsite), getCacheKey, getCacheTTL and               *)
(* calculateConfidence, each on inputs drawn from the sets below.  The     *)
(* engine itself stays as constructed, and each behaviour holds one        *)
(* evaluation.                                                             *)
(***************************************************************************)
EngineIdle ==
    UNCHANGED <<clock, cache, lastConnectivityCheck, slots, last, calls, dropped, keysUsed,
                ticks, memoCleared, repo>>

\* url arguments as a caller may write them
RawAddresses ==
    {"example.com", "www.example.com/a?b=1", "httpbin.org", "http.cat", "localhost:3000",
     "https://example.com", "http://example.com/a", "HTTPS://EXAMPLE.COM",
     "ftp://files.example/x", "//cdn.example/lib.js", "", "https://"}

EvalNormalize(url) ==
    /\ pure = NoEvaluation
    /\ pure' = [method |-> "normalize", input |-> url,
                output |-> <<NormalizeUrl(url), NormalizeUrl(NormalizeUrl(url))>>]
    /\ EngineIdle

\* the parts normalized addresses are put together from
UrlSchemes == {"https://", "http://"}
UrlHosts == {"example.com", "www.github.com"}
UrlPaths == {"", "/", "/a/b", "/api", "/api/v1", "/v2/api/users"}
UrlSuffixes == {"", "?a=1", "?b=2", "#top", "?a=1#top", "?next=/api/x"}

\* getCacheKey on two addresses of one scheme, host and path
EvalCacheKey(scheme, host, path, suffix1, suffix2) ==
    LET url1 == scheme \o host \o path \o suffix1
        url2 == scheme \o host \o path \o suffix2
    IN  /\ pure = NoEvaluation
        /\ pure' = [method |-> "getCacheKey",
                    input |-> [host |-> host, path |-> path, urls |-> <<url1, url2>>],
                    output |-> <<getCacheKey(url1), getCacheKey(url2)>>]
        /\ EngineIdle

TtlHosts ==
    {"example.com", "github.com", "gist.github.com", "news.ycombinator.com",
     "www.reddit.com", "bbc-news.example"}
TtlPaths ==
    {"/", "/octocat", "/feed", "/r/tla/feed.xml", "/user/timeline", "/newsfeed",
     "/my-timeline"}
Unparsable == {"httpbin.org", "not a url"}

\* getCacheTTL on an address put together from a host and a path, or on a
\* string new URL() rejects (parses = FALSE)
EvalCacheTTL(input) ==
    /\ pure = NoEvaluation
    /\ pure' = [method |-> "getCacheTTL", input |-> input,
                output |-> getCacheTTL(input.url)]
    /\ EngineIdle

TtlInputs ==
    {[parses |-> TRUE, host |-> h, path |-> p, url |-> "https://" \o h \o p] :
        h \in TtlHosts, p \in TtlPaths}
    \cup {[parses |-> FALSE, host |-> "", path |-> "", url |-> u] : u \in Unparsable}

\* the content objects of enhancedBasicScrape that calculateConfidence
\* tells apart: main content of 0, 50, 51, 200, 201, 500 and 501
\* characters, and no profile, a profile without username, one with
MainContents ==
    {<<>>}
    \cup {<<Repeat("lorem ipsu", n)>> : n \in {5, 20, 50}}
    \cup {<<Repeat("lorem ipsu", n), "m">> : n \in {5, 20, 50}}

Contents ==
    {[jsonLd |-> j, metaData |-> [title |-> t, description |-> d], mainContent |-> m,
      hasGithubData |-> g, githubData |-> [username |-> u, bio |-> "", stats |-> <<>>]] :
        j \in {<<>>, <<[parses |-> TRUE, type |-> "Person"]>>},
        t \in {"", "T"}, d \in {"", "D"}, m \in MainContents,
        g \in BOOLEAN, u \in {"", "octocat"}}

EvalConfidence(content) ==
    /\ pure = NoEvaluation
    /\ pure' = [method |-> "calculateConfidence", input |-> content,
                output |-> calculateConfidence(content)]
    /\ EngineIdle

(***************************************************************************)
(* extractMainContent.  A document is the sequence of its regions in       *)
(* document order; a region is an element with its tag, the selectors of   *)
(* the cascade it matches by id, class, role or itemprop, the text it      *)
(* holds itself, the number of links in it, and its descendant blocks      *)
(* (tag, text, links) in document order.                                   *)
(***************************************************************************)
contentSelectors ==
    <<"main", "article", "[role=\"main\"]", "#content", ".content", ".markdown-body",
      ".post-content", ".entry-content", ".article-body", ".story-body",
      "div[itemprop=\"articleBody\"]">>

\* $('script, style, nav, header, footer').remove()
RemovedTags == {"script", "style", "nav", "header", "footer"}

Whitespace == {" ", "\n", "\t"}

\* the character of s at position i
CharAt(s, i) == SubSeq(s, i, i)

\* String.prototype.trim
Trim(s) ==
    LET solid == {i \in 1..Len(s) : CharAt(s, i) \notin Whitespace}
    IN  IF solid = {} THEN ""
        ELSE SubSeq(s, CHOOSE i \in solid : \A j \in solid : i <= j,
                       CHOOSE i \in solid : \A j \in solid : i >= j)

Kept(blocks) == SelectSeq(blocks, LAMBDA b : b.tag \notin RemovedTags)

\* the document after the removal
Cleaned(doc) ==
    LET regions == Kept(doc)
    IN  [i \in 1..Len(regions) |-> [regions[i] EXCEPT !.children = Kept(@)]]

RECURSIVE TextsOf(_)
TextsOf(blocks) ==
    IF Len(blocks) = 0 THEN "" ELSE blocks[1].text \o TextsOf(Tail(blocks))

\* .text() of one region: its text nodes and those of its descendants
RegionText(region) == region.text \o TextsOf(region.children)

RECURSIVE RegionsText(_)
RegionsText(regions) ==
    IF Len(regions) = 0 THEN "" ELSE RegionText(regions[1]) \o RegionsText(Tail(regions))

\* $(selector)
Select(doc, selector) ==
    SelectSeq(doc, LAMBDA r : r.tag = selector \/ selector \in r.selectors)

\* element.find('p, h1, h2, h3, li').map(text().trim()).get()
RECURSIVE Paragraphs(_)
Paragraphs(regions) ==
    IF Len(regions) = 0 THEN <<>>
    ELSE LET found == SelectSeq(regions[1].children,
                                LAMBDA b : b.tag \in {"p", "h1", "h2", "h3", "li"})
         IN  [i \in 1..Len(found) |-> Trim(found[i].text)] \o Paragraphs(Tail(regions))

\* the selectors of the cascade, by position, whose elements hold more
\* than 100 characters of trimmed text
Qualifying(doc) ==
    {i \in 1..Len(contentSelectors) :
        LET element == Select(doc, contentSelectors[i])
        IN  Len(element) > 0 /\ Len(Trim(RegionsText(element))) > 100}

\* the number of characters of s that are in chars
CountIn(s, chars) == Cardinality({i \in 1..Len(s) : CharAt(s, i) \in chars})

\* text.split(/\s+/).length of a trimmed text: one more than its runs of
\* whitespace
WhitespaceRuns(s) ==
    Cardinality({i \in 1..Len(s) :
                    /\ CharAt(s, i) \in Whitespace
                    /\ (i = 1 \/ CharAt(s, i - 1) \notin Whitespace)})

WordCount(text) == 1 + WhitespaceRuns(text)

RECURSIVE SumLinks(_)
SumLinks(blocks) == IF Len(blocks) = 0 THEN 0 ELSE blocks[1].links + SumLinks(Tail(blocks))

\* $('div, section, article, p') in document order, each with its own
\* trimmed text and the number of links inside it
RECURSIVE DensityCandidates(_)
DensityCandidates(regions) ==
    IF Len(regions) = 0 THEN <<>>
    ELSE LET r    == regions[1]
             own  == [tag |-> r.tag, text |-> Trim(r.text),
                      links |-> r.links + SumLinks(r.children)]
             subs == [i \in 1..Len(r.children) |->
                        [tag |-> r.children[i].tag, text |-> Trim(r.children[i].text),
                         links |-> r.children[i].links]]
         IN  SelectSeq(<<own>> \o subs,
                       LAMBDA b : b.tag \in {"div", "section", "article", "p"})
             \o DensityCandidates(Tail(regions))

\* linkDensity < 0.3 is links / (length / 100) < 0.3; punctuationDensity >
\* 0.5 is marks / (length / 100) > 0.5
DensityScore(b) ==
    (IF WordCount(b.text) > 10 THEN 1 ELSE 0)
    + (IF b.links * 1000 < 3 * Len(b.text) THEN 1 ELSE 0)
    + (IF CountIn(b.text, {".", "!", "?"}) * 200 > Len(b.text) THEN 1 ELSE 0)

\* Array.prototype.sort (stable) by score, then by length, both descending
RECURSIVE InsertBlock(_, _)
InsertBlock(sorted, b) ==
    IF Len(sorted) = 0 THEN <<b>>
    ELSE IF b.score > sorted[1].score
            \/ (b.score = sorted[1].score /\ Len(b.text) > Len(sorted[1].text))
    THEN <<b>> \o sorted
    ELSE <<sorted[1]>> \o InsertBlock(Tail(sorted), b)

RECURSIVE SortBlocks(_)
SortBlocks(blocks) ==
    IF Len(blocks) = 0 THEN <<>>
    ELSE InsertBlock(SortBlocks(SubSeq(blocks, 1, Len(blocks) - 1)), blocks[Len(blocks)])

\* DensityFallback without the slice(0, 10)
DensityFallbackKeepingAll(doc) ==
    LET candidates == SelectSeq(DensityCandidates(doc), LAMBDA b : Len(b.text) >= 50)
        scored     == [i \in 1..Len(candidates) |->
                        [text |-> candidates[i].text, score |-> DensityScore(candidates[i])]]
        blocks     == SortBlocks(SelectSeq(scored, LAMBDA b : b.score >= 2))
    IN  [i \in 1..Len(blocks) |-> blocks[i].text]

DensityFallback(doc) ==
    LET candidates == SelectSeq(DensityCandidates(doc), LAMBDA b : Len(b.text) >= 50)
        scored     == [i \in 1..Len(candidates) |->
                        [text |-> candidates[i].text, score |-> DensityScore(candidates[i])]]
        blocks     == SortBlocks(SelectSeq(scored, LAMBDA b : b.score >= 2))
    IN  [i \in 1..Len(Slice0(blocks, 10)) |-> blocks[i].text]

extractMainContent(document) ==
    LET doc   == Cleaned(document)
        first == CHOOSE i \in Qualifying(doc) : \A j \in Qualifying(doc) : i <= j
    IN  IF Qualifying(doc) # {}
        THEN SelectSeq(Paragraphs(Select(doc, contentSelectors[first])),
                       LAMBDA t : Len(t) > 20)
        ELSE DensityFallback(doc)

\* the regions documents are put together from
Sentence == "Model checking finds what testing misses. "
Block(tag, text) == [tag |-> tag, text |-> text, links |-> 0]
Region(tag, selectors, text, children) ==
    [tag |-> tag, selectors |-> selectors, text |-> text, links |-> 0, children |-> children]

\* an article of three paragraphs, a heading too short to keep and a script
ArticleOfParagraphs ==
    Region("article", {}, "\n",
           <<Block("h2", "Intro"), Block("p", Repeat(Sentence, 2)),
             Block("script", "var tracked = true;"), Block("p", "  " \o Sentence \o "\n"),
             Block("li", Repeat(Sentence, 3))>>)

\* an article whose 168 characters sit in div elements
ArticleOfDivs ==
    Region("article", {}, "", <<Block("div", Repeat(Sentence, 2)),
                                 Block("div", Repeat(Sentence, 2))>>)

\* a main element of 42 characters
ShortMain == Region("main", {}, "", <<Block("p", Sentence)>>)

\* a div with id content and two paragraphs
ContentDiv ==
    Region("div", {"#content"}, "",
           <<Block("p", Repeat(Sentence, 2)), Block("p", Repeat("Another one. ", 4))>>)

\* a div of 126 characters of its own, and a paragraph of links under it
PlainDiv ==
    [Region("div", {}, Repeat(Sentence, 3),
            <<[tag |-> "p", text |-> Repeat("home about contact ", 4), links |-> 12]>>)
        EXCEPT !.links = 0]

\* a navigation bar of 114 characters
NavBar == Region("nav", {".content"}, Repeat("home about contact ", 6), <<>>)

Regions == {ArticleOfParagraphs, ArticleOfDivs, ShortMain, ContentDiv, PlainDiv, NavBar}

Linked(tag, text, links) == [tag |-> tag, text |-> text, links |-> links]

\* a section of sixteen blocks in no order of score or length: thirteen
\* earn two points or three, one is short, one earns a single point and
\* one is no div, section, article or p
LongSection ==
    Region("section", {}, "\n  ",
           <<Block("p", Repeat(Sentence, 3)),
             Block("p", Repeat("lorem ipsum dolor ", 5)),
             Block("p", Sentence),
             Linked("p", Repeat("See the linked page here. ", 3), 2),
             Block("div", Repeat(Sentence, 5)),
             Block("p", Repeat("lorem ipsum dolor ", 4)),
             Linked("p", Repeat("home about contact ", 4), 12),
             Block("p", Repeat(Sentence, 2)),
             Block("span", Repeat(Sentence, 8)),
             Block("p", Repeat(Sentence, 7)),
             Block("p", Repeat("lorem ipsum dolor ", 8)),
             Block("p", Repeat(Sentence, 6)),
             Block("p", Repeat("lorem ipsum dolor ", 6)),
             Block("p", Repeat(Sentence, 4)),
             Block("p", Repeat("lorem ipsum dolor ", 7)),
             Linked("p", Repeat("Read more! ", 6), 1)>>)

\* blocks at the limits: 50 and 49 characters, and ten words of 63
\* characters without and with a link
EdgeSection ==
    Region("section", {}, "",
           <<Block("p", Repeat("ab c. ", 8) \o "x."),
             Block("p", Repeat("ab c. ", 8) \o "."),
             Block("p", "alpha bravo charlie delta echo foxtrot golf hotel india juliet."),
             Linked("p", "alpha bravo charlie delta echo foxtrot golf hotel india juliet!",
                    1)>>)

Documents ==
    {<<>>} \cup {<<r>> : r \in Regions} \cup {<<r, q>> : r \in Regions, q \in Regions}
    \cup {<<LongSection>>, <<EdgeSection>>, <<EdgeSection, LongSection>>,
          <<PlainDiv, EdgeSection>>}

EvalExtract(document) ==
    /\ pure = NoEvaluation
    /\ pure' = [method |-> "extractMainContent", input |-> document,
                output |-> extractMainContent(document)]
    /\ EngineIdle

\* pages that differ in the three sources of the title
TitlePages ==
    {[NoPage EXCEPT !.ogTitle = og, !.twitterTitle = twitter, !.titleText = title,
                    !.metaDescription = "About"] :
        og \in {"", "Open Graph title"}, twitter \in {"", "Twitter title"},
        title \in {"", "Document title"}}

\* enhancedBasicScrape on a page that was received
EvalScrape(url, page) ==
    /\ pure = NoEvaluation
    /\ pure' = [method |-> "enhancedBasicScrape", input |-> [url |-> url, page |-> page],
                output |-> enhancedBasicScrape(url, page)]
    /\ EngineIdle

NextPure ==
    \/ \E url \in RawAddresses : EvalNormalize(url)
    \/ \E scheme \in UrlSchemes, host \in UrlHosts, path \in UrlPaths,
          suffix1 \in UrlSuffixes, suffix2 \in UrlSuffixes :
          EvalCacheKey(scheme, host, path, suffix1, suffix2)
    \/ \E input \in TtlInputs : EvalCacheTTL(input)
    \/ \E content \in Contents : EvalConfidence(content)
    \/ \E document \in Documents : EvalExtract(document)
    \/ \E page \in TitlePages : EvalScrape("https://example.org/", page)

SpecPure == Init /\ [][NextPure]_vars

(***************************************************************************)
(* The repo-context server (src/repo-context/src/RepoContext.ts).  Paths   *)
(* are the strings the source handles; path.join, path.resolve and         *)
(* path.extname are computed as Node's POSIX implementation computes them. *)
(* Of the three tools that walk the tree only the paths they visit and the *)
(* heading of their text are modelled, not the listing that follows it.    *)
(***************************************************************************)
\* process.cwd()
RepoCwd == "/home/user"

\* the directories and the files (as their lines) of the machine
FsDirectories ==
    {"/", "/home", "/home/user", "/srv", "/srv/repo", "/srv/repo/src", "/srv/repo/.git"}

FsFiles ==
    [f \in {"/srv/repo/README.md", "/srv/repo/src/index.ts", "/srv/repo/.git/config",
            "/srv/secret.txt"} |->
        CASE f = "/srv/repo/README.md" -> <<"# repo", "", "A repository.">>
          [] f = "/srv/repo/src/index.ts" ->
                <<"import a", "import b", "", "const x = 1;", "const y = 2;", "", "run(x);",
                  "run(y);", "", "export {};", "// end", "">>
          [] f = "/srv/repo/.git/config" -> <<"[core]">>
          [] OTHER -> <<"token=abc">>]

IsDirectory(p) == p \in FsDirectories
IsFile(p) == p \in DOMAIN FsFiles
Exists(p) == IsDirectory(p) \/ IsFile(p)

\* normalizeString of Node's path module: "." segments go, ".." takes the
\* segment before it away; above the root of an absolute path it goes
\* itself, at the start of a relative path it stays
RECURSIVE Collapse(_, _, _)
Collapse(segs, acc, absolute) ==
    IF Len(segs) = 0 THEN acc
    ELSE IF segs[1] = "." THEN Collapse(Tail(segs), acc, absolute)
    ELSE IF segs[1] = ".."
    THEN IF Len(acc) > 0 /\ acc[Len(acc)] # ".."
         THEN Collapse(Tail(segs), SubSeq(acc, 1, Len(acc) - 1), absolute)
         ELSE IF absolute THEN Collapse(Tail(segs), acc, absolute)
         ELSE Collapse(Tail(segs), Append(acc, ".."), absolute)
    ELSE Collapse(Tail(segs), Append(acc, segs[1]), absolute)

\* path.normalize
PathNormalize(p) ==
    IF p = "" THEN "."
    ELSE LET absolute == StartsWith(p, "/")
             body     == Join(Collapse(PathParts(p), <<>>, absolute), "/")
             trailing == IF body # "" /\ EndsWith(p, "/") THEN "/" ELSE ""
         IN  IF body = "" /\ ~absolute THEN "."
             ELSE (IF absolute THEN "/" ELSE "") \o body \o trailing

\* path.join of two strings
PathJoin(a, b) ==
    IF a = "" /\ b = "" THEN "."
    ELSE IF a = "" THEN PathNormalize(b)
    ELSE IF b = "" THEN PathNormalize(a)
    ELSE PathNormalize(a \o "/" \o b)

\* path.resolve of one string
PathResolve(p) ==
    LET full == IF StartsWith(p, "/") THEN p
                ELSE IF p = "" THEN RepoCwd
                ELSE RepoCwd \o "/" \o p
    IN  "/" \o Join(Collapse(PathParts(full), <<>>, TRUE), "/")

\* path.basename
PathBasename(p) ==
    LET parts == PathParts(p)
    IN  IF Len(parts) = 0 THEN "" ELSE parts[Len(parts)]

\* String.prototype.lastIndexOf, 1-based, 0 when absent
LastIndexOf(s, sub) ==
    LET hits == {i \in 1..(Len(s) - Len(sub) + 1) : SubSeq(s, i, i + Len(sub) - 1) = sub}
    IN  IF hits = {} THEN 0 ELSE CHOOSE i \in hits : \A j \in hits : i >= j

\* path.extname
PathExtname(p) ==
    LET base == PathBasename(p)
        dot  == LastIndexOf(base, ".")
    IN  IF dot <= 1 THEN "" ELSE SubSeq(base, dot, Len(base))

\* String.prototype.toLowerCase on the letters file names are written with
LowerOf(c) ==
    CASE c = "A" -> "a" [] c = "C" -> "c" [] c = "D" -> "d" [] c = "E" -> "e"
      [] c = "M" -> "m" [] c = "R" -> "r" [] c = "S" -> "s" [] c = "T" -> "t"
      [] c = "X" -> "x" [] OTHER -> c

RECURSIVE ToLowerCase(_)
ToLowerCase(s) ==
    IF s = "" THEN "" ELSE LowerOf(SubSeq(s, 1, 1)) \o ToLowerCase(SubSeq(s, 2, Len(s)))

getFileExtension(filePath) == ToLowerCase(PathExtname(filePath))

ignoredDirs ==
    {"node_modules", ".git", ".vscode", ".idea", "dist", "build", "__pycache__",
     ".pytest_cache", "venv", ".venv", "env", ".env", "coverage", ".coverage", "logs",
     "temp", "tmp", ".tmp"}

shouldIgnoreDir(dirName) == dirName \in ignoredDirs \/ StartsWith(dirName, ".")

\* the entries fs.readdir finds in a directory
Entries(dir) ==
    {p \in FsDirectories \cup DOMAIN FsFiles :
        p # "/" /\ p = (IF dir = "/" THEN "" ELSE dir) \o "/" \o PathBasename(p)}

\* the paths a walk from dirPath hands to fs: dirPath itself (readdir), its
\* entries (stat), and what the walk of each directory not ignored hands
RECURSIVE Walked(_, _)
Walked(dirPath, depth) ==
    IF depth <= 0 THEN {}
    ELSE IF ~IsDirectory(dirPath) THEN {dirPath}
    ELSE {dirPath} \cup Entries(dirPath)
         \cup UNION {Walked(d, depth - 1) :
                        d \in {e \in Entries(dirPath) :
                                  IsDirectory(e) /\ ~shouldIgnoreDir(PathBasename(e))}}

\* the depth below which the tree above has nothing
TreeDepth == 4

\* `${error}` of the errors fs rejects with
NoEntry(call, p) == "Error: ENOENT: no such file or directory, " \o call \o " '" \o p \o "'"
IsADirectory == "Error: EISDIR: illegal operation on a directory, read"
NotADirectory(p) == "Error: ENOTDIR: not a directory, scandir '" \o p \o "'"
NotAString(what) ==
    "TypeError [ERR_INVALID_ARG_TYPE]: The \"" \o what
    \o "\" argument must be of type string. Received undefined"

\* the guard left out: no call is refused for want of a repository path
NoRepoPathNever(repoPath) == FALSE

\* if (!this.repoPath)
NoRepoPath(repoPath) == repoPath = ""

NoRepoPathText == "Error: No repository path set. Use set_repo_path first."

\* getFileSummary: fs.stat, fs.readFile, then the summary; its own catch
\* turns a failure into text
getFileSummary(filePath) ==
    IF ~Exists(filePath) THEN "Error reading file: " \o NoEntry("stat", filePath)
    ELSE IF IsDirectory(filePath) THEN "Error reading file: " \o IsADirectory
    ELSE LET lines   == FsFiles[filePath]
             content == Join(lines, "\n")
         IN  "File: " \o PathBasename(filePath) \o "\n"
             \o "Size: " \o ToString(Len(content)) \o " bytes\n"
             \o "Lines: " \o ToString(Len(lines)) \o "\n"
             \o "Extension: " \o getFileExtension(filePath) \o "\n"
             \o "\nPreview (first 10 lines):\n" \o Join(Slice0(lines, 10), "\n")
             \o (IF Len(lines) > 10
                 THEN "\n... (" \o ToString(Len(lines) - 10) \o " more lines)" ELSE "")

\* the web-search server is another process: nothing of it changes
WebSearchIdle ==
    UNCHANGED <<clock, cache, lastConnectivityCheck, slots, last, calls, dropped, keysUsed,
                ticks, memoCleared, pure>>

\* the tool call of the given name ending with the given text
RepoReturned(name, text, touched, read) ==
    [repo EXCEPT !.name = name, !.status = "text", !.text = text, !.touched = touched,
                 !.read = read]

RepoThrew(name, message) ==
    [repo EXCEPT !.name = name, !.status = "threw", !.text = message, !.touched = {},
                 !.read = {}]

\* the arguments of the tool calls: a key left out is undefined
SetRepoPathArgs ==
    {<<>>} \cup {[repoPath |-> p] :
                    p \in {"/srv/repo", "/srv/repo/", "/srv/repo/src/..", "/srv/repo/README.md",
                           "/nowhere", "repo", "", "../../srv"}}

FilePathArgs ==
    {<<>>} \cup {[filePath |-> p] :
                    p \in {"README.md", "src/index.ts", "./src/../README.md", "missing.txt",
                           "src", "../secret.txt", "src/../../secret.txt", "/srv/secret.txt",
                           "/etc/passwd", ".git/config"}}

ListFilesArgs == {<<>>} \cup {[directory |-> d] : d \in {"src", "..", "README.md", "lib"}}

\* name === 'set_repo_path'
CallSetRepoPath(args) ==
    /\ repo' =
         IF "repoPath" \notin DOMAIN args
         THEN \* path.resolve(undefined) throws inside the try block
              RepoReturned("set_repo_path",
                           "Error setting repository path: " \o NotAString("paths[0]"), {}, {})
         ELSE LET resolvedPath == PathResolve(args.repoPath)
              IN  IF ~Exists(resolvedPath)
                  THEN RepoReturned("set_repo_path",
                                    "Error setting repository path: "
                                    \o NoEntry("stat", resolvedPath), {resolvedPath}, {})
                  ELSE IF ~IsDirectory(resolvedPath)
                  THEN RepoReturned("set_repo_path",
                                    "Error: " \o args.repoPath \o " is not a directory",
                                    {resolvedPath}, {})
                  ELSE [RepoReturned("set_repo_path",
                                     "Repository path set to: " \o resolvedPath,
                                     {resolvedPath}, {})
                           EXCEPT !.repoPath = resolvedPath]
    /\ WebSearchIdle

\* name === 'read_file'
CallReadFile(args) ==
    /\ repo' =
         IF NoRepoPath(repo.repoPath) THEN RepoReturned("read_file", NoRepoPathText, {}, {})
         ELSE IF "filePath" \notin DOMAIN args
         THEN \* path.join(this.repoPath, undefined) throws before the try block
              RepoThrew("read_file", NotAString("path"))
         ELSE LET fullPath == PathJoin(repo.repoPath, args.filePath)
              IN  IF IsFile(fullPath)
                  THEN RepoReturned("read_file",
                                    "File: " \o args.filePath \o "\n" \o Repeat("=", 50) \o "\n"
                                    \o Join(FsFiles[fullPath], "\n"),
                                    {fullPath}, {fullPath})
                  ELSE RepoReturned("read_file",
                                    "Error reading file " \o args.filePath \o ": "
                                    \o (IF IsDirectory(fullPath) THEN IsADirectory
                                        ELSE NoEntry("open", fullPath)),
                                    {fullPath}, {})
    /\ WebSearchIdle

\* name === 'get_file_summary'
CallGetFileSummary(args) ==
    /\ repo' =
         IF NoRepoPath(repo.repoPath)
         THEN RepoReturned("get_file_summary", NoRepoPathText, {}, {})
         ELSE IF "filePath" \notin DOMAIN args
         THEN RepoThrew("get_file_summary", NotAString("path"))
         ELSE LET fullPath == PathJoin(repo.repoPath, args.filePath)
              IN  RepoReturned("get_file_summary", getFileSummary(fullPath), {fullPath},
                               IF IsFile(fullPath) THEN {fullPath} ELSE {})
    /\ WebSearchIdle

\* name === 'get_repo_structure', with the maxDepth of the arguments
CallGetRepoStructure(maxDepth) ==
    /\ repo' =
         IF NoRepoPath(repo.repoPath)
         THEN RepoReturned("get_repo_structure", NoRepoPathText, {}, {})
         ELSE RepoReturned("get_repo_structure", "Repository Structure:\n",
                           Walked(repo.repoPath, maxDepth), {})
    /\ WebSearchIdle

\* name === 'list_files'
CallListFiles(args) ==
    /\ repo' =
         IF NoRepoPath(repo.repoPath) THEN RepoReturned("list_files", NoRepoPathText, {}, {})
         ELSE LET searchPath == IF "directory" \in DOMAIN args /\ args.directory # ""
                                THEN PathJoin(repo.repoPath, args.directory)
                                ELSE repo.repoPath
              IN  IF ~Exists(searchPath)
                  THEN RepoReturned("list_files",
                                    "Error listing files: " \o NoEntry("scandir", searchPath),
                                    {searchPath}, {})
                  ELSE IF ~IsDirectory(searchPath)
                  THEN RepoReturned("list_files",
                                    "Error listing files: " \o NotADirectory(searchPath),
                                    {searchPath}, {})
                  ELSE RepoReturned("list_files", "Found ",
                                    Walked(searchPath, TreeDepth), {})
    /\ WebSearchIdle

\* name === 'analyze_repo'
CallAnalyzeRepo ==
    /\ repo' =
         IF NoRepoPath(repo.repoPath) THEN RepoReturned("analyze_repo", NoRepoPathText, {}, {})
         ELSE RepoReturned("analyze_repo",
                           "Repository Analysis for: " \o repo.repoPath \o "\n"
                           \o Repeat("=", 50) \o "\n\n",
                           Walked(repo.repoPath, 2), {})
    /\ WebSearchIdle

\* throw new Error(`Unknown tool: ${name}`)
CallUnknownRepoTool(name) ==
    /\ repo' = RepoThrew(name, "Unknown tool: " \o name)
    /\ WebSearchIdle

NextRepo ==
    \/ \E args \in SetRepoPathArgs : CallSetRepoPath(args)
    \/ \E args \in FilePathArgs : CallReadFile(args)
    \/ \E args \in FilePathArgs : CallGetFileSummary(args)
    \/ \E maxDepth \in {1, 3} : CallGetRepoStructure(maxDepth)
    \/ \E args \in ListFilesArgs : CallListFiles(args)
    \/ CallAnalyzeRepo
    \/ \E name \in UnknownTools : CallUnknownRepoTool(name)

SpecRepo == Init /\ [][NextRepo]_vars

(***************************************************************************)
(* Properties of the cache                                                 *)
(***************************************************************************)
\* the completed call `last` was a scrape_website call that returned text
LastScrapeReturned == last.name = "scrape_website" /\ last.status = "text"

\* the text of a response served from the cache, written out
CachedLabel(url, content) ==
    "Cached content from " \o url \o ":\n" \o "==============================" \o "\n"
    \o content

\* C1: in every reachable state, whatever the interleaving of the tool
\* calls, the cache holds at most 50 entries once a write has completed
\* (a write is one atomic step, so every state is one between writes).
C1_CacheWithinCapacity == Len(cache) <= 50

\* a write that found the cache at its limit has completed: the five oldest
\* entries are gone and the new one is in
C1_WroteIntoFullCache ==
    /\ LastScrapeReturned
    /\ last.wrote # <<>>
    /\ last.sizeBefore = 50
    /\ Len(cache) = 46
    /\ CacheGet(cache, last.cacheKey) = last.wrote

\* C2: when the last completed call is a scrape_website that stored what it
\* retrieved (API, confident, dynamic-site or low-confidence response), a
\* scrape_website for the same address that starts before the TTL of that
\* entry has elapsed returns at once, with no request issued, the text
\* "Cached content from <normalized address>" followed by the stored content.
C2_SecondScrapeServedFromCache ==
    [][ \A p \in Slots, a \in Addresses :
          ( /\ LastScrapeReturned
            /\ last.wrote # <<>>
            /\ NormalizeUrl(a) = last.normalizedUrl
            /\ clock - last.wrote[1].timestamp < last.wrote[1].ttl
            /\ CallScrape(p, [url |-> a]) )
          => /\ last'.status = "text"
             /\ last'.text = CachedLabel(last.normalizedUrl, last.wrote[1].content)
             /\ last'.requests = 0
             /\ \A q \in Slots : slots'[q] = slots[q] ]_vars

\* a scrape_website was answered from the entry an earlier one had stored,
\* without a request
C2_ServedFromCache ==
    /\ LastScrapeReturned
    /\ last.seen # <<>>
    /\ last.requests = 0
    /\ last.wrote = <<>>
    /\ last.text = CachedLabel(last.normalizedUrl, last.seen[1].content)
    /\ StartsWith(last.seen[1].content, "Title: Rich")

\* the entry a scrape_website call found under its key is within its
\* lifetime at the instant the call read the clock
Fresh(seen, now) == now - seen[1].timestamp < seen[1].ttl

\* C3: a scrape_website call that finds an entry stored at s with TTL T
\* under its key is served from the cache iff now - s < T: at s + T - 1 it
\* returns the cached text without a request, at s + T or later it issues
\* the requests of a new retrieval.
C3_HitIffWithinTTL ==
    /\ \A p \in Slots :
          (slots[p].name = "scrape_website" /\ slots[p].seen # <<>>)
          => ~Fresh(slots[p].seen, slots[p].now) /\ slots[p].requests >= 1
    /\ (LastScrapeReturned /\ last.seen # <<>>)
       => IF Fresh(last.seen, last.now)
          THEN /\ last.text = CachedLabel(last.normalizedUrl, last.seen[1].content)
               /\ last.requests = 0
          ELSE /\ last.requests >= 1
               /\ last.text # CachedLabel(last.normalizedUrl, last.seen[1].content)

\* a call read the clock at exactly s + T and went to the network
C3_MissAtExpiry ==
    \E p \in Slots :
        /\ slots[p].name = "scrape_website"
        /\ slots[p].seen # <<>>
        /\ slots[p].now = slots[p].seen[1].timestamp + slots[p].seen[1].ttl
        /\ slots[p].requests >= 1

\* C4: every scrape_website call, whatever its url argument and whatever
\* its requests did, completes by returning text; nothing is thrown to the
\* caller.  (Refuted: a call whose arguments carry no url throws.)
C4_ScrapeAlwaysReturnsText ==
    last.name = "scrape_website" => last.status = "text"

\* the failure of a page fetch is a timeout: the connect timed out, or the
\* timer of the request's timeout option expired
IsTimeoutError(message) ==
    Includes(message, "ETIMEDOUT") \/ Includes(message, "timeout")

\* C5: a scrape_website retrieval that fails with a timeout while the cache
\* holds an entry for its key, expired or not, returns
\* "Cached content from <address> (network timeout)" with that entry's
\* content, never "Error scraping"; with no entry, or a failure that is not
\* a timeout, it returns the textual error.  (Refuted: the expiry of the
\* 10 s request timer is answered with the textual error.)
C5_TimeoutServesStaleEntry ==
    (LastScrapeReturned /\ last.errorMessage # "")
    => IF last.stale # <<>> /\ IsTimeoutError(last.errorMessage)
       THEN last.text = "Cached content from " \o last.normalizedUrl
                        \o " (network timeout):\n" \o "=============================="
                        \o "\n" \o last.stale[1].content
       ELSE last.text = "Error scraping " \o last.normalizedUrl \o ": "
                        \o last.errorMessage

(***************************************************************************)
(* Properties of the tiers                                                 *)
(***************************************************************************)
\* the label of a response built from a fetched page
ScrapedLabel(url) == "Scraped content from " \o url

\* C6: for an address whose domain has an API handler registered, a failed
\* API attempt is not what the caller receives: the call goes on to the
\* page fetch, and its response is the one the fetch and the extraction
\* decide: a scraped response when the fetch succeeds, else the response
\* to the failure of the fetch.
C6_ApiFailureFallsBackToFetch ==
    /\ \A p \in Slots : slots[p].apiFailed => slots[p].pc = "fetch"
    /\ (last.name = "scrape_website" /\ last.apiFailed)
       => /\ last.status = "text"
          /\ last.requests >= 1
          /\ IF last.errorMessage = ""
             THEN /\ last.tier \in {"confident", "dynamic", "low"}
                  /\ StartsWith(last.text, ScrapedLabel(last.normalizedUrl))
                  /\ last.wrote # <<>>
             ELSE /\ last.errorMessage \in FetchErrors
                  /\ Includes(last.text, last.normalizedUrl)
                  /\ \/ StartsWith(last.text, "Error scraping ")
                     \/ StartsWith(last.text, "Cached content from ")

\* the three GitHub requests were issued, one that cannot be done without
\* failed, the page was fetched and a scraped response returned
C6_ScrapedAfterApiFailure ==
    /\ LastScrapeReturned
    /\ last.apiFailed
    /\ ~last.apiOk
    /\ last.requests = 4
    /\ StartsWith(last.text, ScrapedLabel("https://github.com/octocat"))

\* the profile addresses on github.com that are explored
GithubProfiles == {"https://github.com/octocat", "https://www.github.com/octocat"}

\* C7: on a cache miss for a profile URL on github.com, with or without a
\* leading www., the three API requests are issued; when those that are
\* needed succeed the call returns "API content from <address>" with the
\* API content, writes that content to the cache under the TTL of the
\* address's policy (1800 s), and has issued no page fetch.
C7_ApiSuccessAnswersProfile ==
    /\ \A p \in Slots :
          (slots[p].name = "scrape_website" /\ slots[p].normalizedUrl \in GithubProfiles)
          => \/ slots[p].pc = "api" /\ slots[p].requests = 3
             \/ slots[p].pc = "fetch" /\ slots[p].apiFailed /\ ~slots[p].apiOk
    /\ ( /\ LastScrapeReturned
         /\ last.normalizedUrl \in GithubProfiles
         /\ ~(last.seen # <<>> /\ Fresh(last.seen, last.now)) )
       => IF last.apiOk
          THEN /\ last.requests = 3
               /\ last.wrote # <<>>
               /\ last.wrote[1].ttl = 1800
               /\ last.wrote[1].key = last.cacheKey
               /\ StartsWith(last.wrote[1].content, "GitHub Profile: The Octocat")
               /\ CacheGet(cache, last.cacheKey) = last.wrote
               /\ last.text = "API content from " \o last.normalizedUrl \o ":\n"
                              \o "==============================" \o "\n"
                              \o last.wrote[1].content
          ELSE last.apiFailed

\* the profile address with www. was answered by the API
C7_WwwProfileAnsweredByApi ==
    /\ LastScrapeReturned
    /\ last.normalizedUrl = "https://www.github.com/octocat"
    /\ last.apiOk
    /\ last.requests = 3
    /\ StartsWith(last.text, "API content from https://www.github.com/octocat")

\* the explored addresses whose domain is on the dynamic list
DynamicAddresses == {"https://x.com/feed", "https://instagram.com/p"}

\* C8: every cache entry written for an address on the dynamic list whose
\* page scored a confidence <= 0.5 has content ending with the dynamic-site
\* note and a TTL <= 600: 600 where the policy of the address gives more
\* (3600), the policy's value where it is smaller (300 for a feed path).
C8_DynamicEntryCapped ==
    ( /\ LastScrapeReturned
      /\ last.wrote # <<>>
      /\ last.normalizedUrl \in DynamicAddresses
      /\ last.confidence <= 50 )
    => /\ EndsWith(last.wrote[1].content,
                   "Note: This site loads content dynamically. Some information may be missing.")
       /\ last.wrote[1].ttl <= 600
       /\ last.wrote[1].ttl =
             (IF last.normalizedUrl = "https://x.com/feed" THEN 300 ELSE 600)
       /\ CacheGet(cache, last.cacheKey) = last.wrote

\* an entry whose policy gives 3600 was written with the note and TTL 600
C8_CappedEntryWritten ==
    /\ LastScrapeReturned
    /\ last.normalizedUrl = "https://instagram.com/p"
    /\ last.confidence <= 50
    /\ last.wrote # <<>>
    /\ last.wrote[1].ttl = 600
    /\ getCacheTTL(last.normalizedUrl) = 3600

\* the domains of strategies.basic and strategies.dynamic, as sets
BasicDomains == {"github.com", "wikipedia.org", "docs.python.org", "stackoverflow.com"}
DynamicDomains == {"instagram.com", "x.com", "twitter.com", "linkedin.com", "facebook.com"}

\* the note appended to the content of a dynamic site
NoteOfDynamicSite == "This site loads content dynamically"

\* C9: after a successful page fetch exactly one of three outcomes is
\* chosen, in this precedence: (1) confidence > 0.5 or domain on the basic
\* list: cached under the normal TTL, tagged "(confidence: NN%)", no note;
\* (2) otherwise, domain on the dynamic list: note appended, TTL capped at
\* 600, tagged "(dynamic site)"; (3) otherwise: cached under the normal TTL
\* and returned untagged, without note.
C9_DecisionPrecedence ==
    (LastScrapeReturned /\ last.tier \in {"confident", "dynamic", "low"})
    => LET url     == last.normalizedUrl
           domain  == DomainOf(url)
           entry   == last.wrote[1]
           pattern == IF last.confidence > 50 \/ domain \in BasicDomains THEN 1
                      ELSE IF domain \in DynamicDomains THEN 2
                      ELSE 3
       IN  /\ last.wrote # <<>>
           /\ pattern = 1 =>
                 /\ last.tier = "confident"
                 /\ entry.ttl = getCacheTTL(url)
                 /\ ~Includes(entry.content, NoteOfDynamicSite)
                 /\ StartsWith(last.text, ScrapedLabel(url) \o " (confidence: "
                                          \o ToString(last.confidence) \o "%):\n")
           /\ pattern = 2 =>
                 /\ last.tier = "dynamic"
                 /\ entry.ttl = Min(getCacheTTL(url), 600)
                 /\ Includes(entry.content, NoteOfDynamicSite)
                 /\ StartsWith(last.text, ScrapedLabel(url) \o " (dynamic site):\n")
           /\ pattern = 3 =>
                 /\ last.tier = "low"
                 /\ entry.ttl = getCacheTTL(url)
                 /\ ~Includes(entry.content, NoteOfDynamicSite)
                 /\ StartsWith(last.text, ScrapedLabel(url) \o ":\n")
           /\ EndsWith(last.text, entry.content)

\* a page of a domain on the basic list that scored 0.5 was tagged with its
\* confidence
C9_BasicDomainTaggedAtHalf ==
    /\ LastScrapeReturned
    /\ DomainOf(last.normalizedUrl) \in BasicDomains
    /\ last.tier = "confident"
    /\ last.confidence = 50
    /\ Includes(last.text, "(confidence: 50%)")

LastCheckReturned == last.name = "check_internet" /\ last.status = "text"

\* C11: reset_cache empties the cache and clears the connectivity memo in
\* one step, so that no call sees one cleared without the other, and the
\* first check_internet issued after it sends a probe.  (Refuted: a probe
\* that was pending when reset_cache ran sets the memo again when it
\* settles, and the next check_internet is answered from that memo.)
C11_ResetClearsCacheAndMemo ==
    /\ last.name = "reset_cache" => cache = <<>> /\ lastConnectivityCheck = <<>>
    /\ \A p \in Slots :
          (slots[p].name = "check_internet" /\ slots[p].cold)
          => slots[p].pc = "probe" /\ slots[p].requests = 1
    /\ (LastCheckReturned /\ last.cold) => last.requests = 1

\* the memo a check_internet call found is within its 60 seconds at the
\* instant the call read the clock
MemoWithin60(seen, now) == seen # <<>> /\ now - seen[1].timestamp < 60

\* C12: check_internet called while a memo exists with now - checkedAt < 60
\* returns the memoized value and issues no probe; with no memo, or with
\* now - checkedAt >= 60, it issues exactly one probe and returns
\* "Internet: Connected" iff the probe got a response of status < 300.
C12_MemoReusedWithin60 ==
    /\ \A p \in Slots :
          slots[p].name = "check_internet"
          => /\ slots[p].pc = "probe"
             /\ slots[p].requests = 1
             /\ ~MemoWithin60(slots[p].seen, slots[p].now)
    /\ LastCheckReturned
       => IF MemoWithin60(last.seen, last.now)
          THEN /\ last.requests = 0
               /\ last.probe = <<>>
               /\ last.text = (IF last.seen[1].isConnected
                               THEN "Internet: Connected" ELSE "Internet: Offline")
          ELSE /\ last.requests = 1
               /\ last.probe # <<>>
               /\ last.text \in {"Internet: Connected", "Internet: Offline"}
               /\ last.text = "Internet: Connected"
                  <=> (last.probe[1].status # 0 /\ last.probe[1].status < 300)

\* a check_internet call read the clock exactly 60 seconds after the memo
\* was taken and sent a probe
C12_ProbedAtExpiry ==
    \E p \in Slots :
        /\ slots[p].name = "check_internet"
        /\ slots[p].seen # <<>>
        /\ slots[p].now = slots[p].seen[1].timestamp + 60
        /\ slots[p].pc = "probe"

\* C13: when the probe fails (no response: timeout, DNS failure, refused
\* connection; or a status axios rejects), check_internet returns
\* "Internet: Offline"; every probe, whatever its outcome, sets the memo to
\* its answer with the timestamp the call read, so that an offline answer is
\* reused, without a probe, by the calls that read the clock less than 60
\* seconds after that timestamp.
C13_FailedProbeIsOfflineAndMemoized ==
    /\ (LastCheckReturned /\ last.probe # <<>>)
       => /\ ~last.probe[1].ok => last.text = "Internet: Offline"
          /\ lastConnectivityCheck =
                <<[isConnected |-> last.text = "Internet: Connected",
                   timestamp |-> last.now]>>
    /\ ( /\ LastCheckReturned
         /\ MemoWithin60(last.seen, last.now)
         /\ ~last.seen[1].isConnected )
       => last.text = "Internet: Offline" /\ last.requests = 0

\* a probe got no response and the memo holds the offline answer
C13_OfflineMemoized ==
    /\ LastCheckReturned
    /\ last.probe # <<>>
    /\ last.probe[1].status = 0
    /\ last.text = "Internet: Offline"
    /\ lastConnectivityCheck = <<[isConnected |-> FALSE, timestamp |-> last.now]>>

(***************************************************************************)
(* Properties of updateCache and of the pure methods                       *)
(***************************************************************************)
\* the positions of the five oldest entries of a cache: fewer than five
\* entries are older, or as old and inserted earlier
OldestFive(c) ==
    {i \in 1..Len(c) :
        Cardinality({j \in 1..Len(c) :
                        \/ c[j].timestamp < c[i].timestamp
                        \/ c[j].timestamp = c[i].timestamp /\ j < i}) < 5}

\* C14: a cache write that finds 50 entries removes the 5 oldest by
\* timestamp (10% of 50, rounded up) before it inserts; afterwards the
\* entry written is present with timestamp = now, and every other entry
\* that was not among the 5 oldest is still there, unchanged.
C14_EvictsFiveOldest ==
    [][ (Len(cache) >= 50 /\ cache' # cache /\ cache' # <<>>)
        => LET written == last'.wrote[1]
               gone    == OldestFive(cache)
           IN  /\ last'.wrote # <<>>
               /\ Cardinality(gone) = 5
               /\ CacheGet(cache', written.key) = <<written>>
               /\ written.timestamp = clock
               /\ \A i \in 1..Len(cache) :
                     cache[i].key # written.key
                     => IF i \in gone
                        THEN CacheGet(cache', cache[i].key) = <<>>
                        ELSE CacheGet(cache', cache[i].key) = <<cache[i]>>
               /\ \A k \in 1..Len(cache') :
                     \/ cache'[k] = written
                     \/ \E i \in 1..Len(cache) : i \notin gone /\ cache[i] = cache'[k] ]_vars

\* the write of a new key found 50 entries: the first five inserted at
\* second 0 are gone, the sixth and the new entry are there
C14_FiveOldestGone ==
    /\ LastScrapeReturned
    /\ last.sizeBefore = 50
    /\ last.wrote # <<>>
    /\ last.cacheKey = "github.com/octocat"
    /\ CacheGet(cache, "f5.example/") = <<>>
    /\ CacheGet(cache, "f6.example/") # <<>>
    /\ CacheGet(cache, last.cacheKey) = last.wrote

(***************************************************************************)
(* Properties of the pure methods                                          *)
(***************************************************************************)
Evaluated(method) == pure.method = method

\* C15: two normalized addresses of the same host and path that differ
\* only in query string or fragment get the same cache key, host followed
\* by path, unless the path contains "/api/": then each key is the whole
\* address, so the keys of two different addresses differ.
C15_KeyIgnoresQueryUnlessApi ==
    Evaluated("getCacheKey") =>
        LET url1 == pure.input.urls[1]
            url2 == pure.input.urls[2]
            path == IF pure.input.path = "" THEN "/" ELSE pure.input.path
        IN  IF Includes(pure.input.path, "/api/")
            THEN /\ pure.output = <<url1, url2>>
                 /\ url1 # url2 => pure.output[1] # pure.output[2]
            ELSE /\ pure.output[1] = pure.output[2]
                 /\ pure.output[1] = pure.input.host \o path

\* C15 happens: an address whose query names an "/api/" path and the same
\* address without query got one key
C15_QueryWithApiIgnored ==
    /\ Evaluated("getCacheKey")
    /\ pure.input.urls = <<"https://example.com/a/b?next=/api/x", "https://example.com/a/b">>
    /\ pure.output = <<"example.com/a/b", "example.com/a/b">>

\* C16: normalizing an address twice gives what normalizing it once gives.
C16_NormalizeIdempotent ==
    Evaluated("normalize") => pure.output[2] = pure.output[1]

\* C16 happens: an address without scheme was prefixed, and the prefixed
\* address normalized again stayed as it was
C16_PrefixedOnce ==
    /\ Evaluated("normalize")
    /\ pure.input = "www.example.com/a?b=1"
    /\ pure.output = <<"https://www.example.com/a?b=1", "https://www.example.com/a?b=1">>

\* a scheme, "://" and something after it
HasScheme(url) == IndexOf(url, "://") > 1

\* C17: the normalized address of every scrape has a scheme: an argument
\* without scheme (a host whose name begins with "http" included) is
\* prefixed with "https://", and nothing but an argument that has a scheme
\* is left as written.
C17_NormalizedHasScheme ==
    LastScrapeReturned => HasScheme(last.normalizedUrl)

\* the TTL the priority order gives an address of the given host and path,
\* with the two markers the path is searched for
TtlByPriority(input, feedMarker, timelineMarker) ==
    IF ~input.parses THEN 3600
    ELSE IF Includes(input.path, feedMarker) \/ Includes(input.path, timelineMarker) THEN 300
    ELSE IF Includes(input.host, "github.com") THEN 1800
    ELSE IF Includes(input.host, "news") \/ Includes(input.host, "reddit") THEN 600
    ELSE 3600

\* C18: the TTL of an address is decided in this order: the path contains
\* "/feed" or "/timeline" -> 300; else the host contains "github.com" ->
\* 1800; else the host contains "news" or "reddit" -> 600; else 3600; an
\* address that does not parse gets 3600.
C18_TtlByPriority ==
    Evaluated("getCacheTTL") => pure.output = TtlByPriority(pure.input, "/feed", "/timeline")

\* C18 happens: a github.com address with "/feed" in its path got 300, the
\* first rule winning over the second
C18_GithubFeedGets300 ==
    /\ Evaluated("getCacheTTL")
    /\ pure.input.url = "https://github.com/feed"
    /\ pure.output = 300

\* C18 as stated: the same order with the path searched for "feed" and
\* "timeline"
C18_TtlByPriorityAsStated ==
    Evaluated("getCacheTTL") => pure.output = TtlByPriority(pure.input, "feed", "timeline")

\* C19: whatever the structured data, title, description, main content and
\* profile of the content, the confidence lies between 0 and 1 (0 and 100
\* hundredths).
C19_ConfidenceWithinBounds ==
    Evaluated("calculateConfidence") => pure.output >= 0 /\ pure.output <= 100

\* C19 happens: a content with every part present scored the full 1
C19_FullScore ==
    /\ Evaluated("calculateConfidence")
    /\ Len(pure.input.jsonLd) > 0
    /\ pure.input.metaData = [title |-> "T", description |-> "D"]
    /\ MainLength(pure.input.mainContent) > 500
    /\ pure.input.hasGithubData /\ pure.input.githubData.username = "octocat"
    /\ pure.output = 100

(***************************************************************************)
(* Properties of the response texts                                        *)
(***************************************************************************)
\* the separator line between the label and the content, written out
SeparatorLine == "\n" \o "==============================" \o "\n"

\* the labels a text with a separator line begins with
SeparatedLabels(url) ==
    {"Cached content from " \o url \o ":",
     "Cached content from " \o url \o " (network timeout):",
     "API content from " \o url \o ":",
     "Scraped content from " \o url \o " (dynamic site):",
     "Scraped content from " \o url \o ":"}
    \cup {"Scraped content from " \o url \o " (confidence: " \o ToString(n) \o "%):" :
            n \in 0..100}

\* C20: every text scrape_website returns begins with a label that names
\* the source and the normalized address; every text but the error text
\* continues with the separator line of 30 "=" and the content, and the
\* error text is "Error scraping <address>: <message>" with no separator
\* line.
C20_LabelledAndSeparatedUnlessError ==
    LastScrapeReturned =>
        IF StartsWith(last.text, "Error scraping ")
        THEN /\ last.text = "Error scraping " \o last.normalizedUrl \o ": " \o last.errorMessage
             /\ ~Includes(last.text, SeparatorLine)
        ELSE \E label \in SeparatedLabels(last.normalizedUrl) :
                StartsWith(last.text, label \o SeparatorLine)

\* C20 happens: a scrape whose fetch failed returned the error text, which
\* has the label and the message and no separator line
C20_ErrorTextWithoutSeparator ==
    /\ LastScrapeReturned
    /\ last.errorMessage = "Request failed with status code 404"
    /\ last.text = "Error scraping https://example.com: Request failed with status code 404"

\* C20 as stated: every text scrape_website returns, the error text
\* included, carries one of the labels and the separator line
C20_LabelAndSeparatorAlways ==
    LastScrapeReturned =>
        /\ \E label \in {"Cached content from ", "API content from ", "Scraped content from ",
                         "Error scraping "} : StartsWith(last.text, label)
        /\ Includes(last.text, SeparatorLine)

(***************************************************************************)
(* Properties of the tool handler                                          *)
(***************************************************************************)
ToolNames == {"check_internet", "scrape_website", "reset_cache"}

\* C21: a call of a tool that is none of check_internet, scrape_website and
\* reset_cache throws and leaves the cache and the connectivity memo as
\* they were, and no other call throws.  (Refuted: scrape_website called
\* without url throws.)
C21_OnlyUnknownToolFails ==
    [][last' # last =>
         /\ last'.name \notin ToolNames =>
               /\ last'.status = "threw"
               /\ cache' = cache
               /\ lastConnectivityCheck' = lastConnectivityCheck
         /\ last'.status = "threw" => last'.name \notin ToolNames]_vars

\* the calls that have been started and have not returned
InProgress == {p \in Slots : slots[p].pc # "idle"}

\* C22: the engine processes one invoked operation at a time: in no
\* reachable state are two operations in progress.  (Refuted: the handler
\* is entered for a second request while the first awaits its response.)
C22_OneOperationAtATime == Cardinality(InProgress) <= 1

\* C23: one connectivity check serves every caller of its 60 seconds: no
\* two probes are issued within 60 seconds of each other, so two probes
\* pending together were started at least 60 seconds apart.  (Refuted: two
\* check_internet calls that both read the memo before either probe has
\* answered both probe.)
C23_OneProbePerWindow ==
    \A p, q \in Slots :
        (p # q /\ slots[p].pc = "probe" /\ slots[q].pc = "probe")
        => (slots[p].now - slots[q].now >= 60 \/ slots[q].now - slots[p].now >= 60)

(***************************************************************************)
(* Termination                                                             *)
(***************************************************************************)
\* C24: every request carries a timeout, so, requests with a timeout
\* settling within it, every scrape_website and check_internet call that
\* has been started eventually returns.  (Refuted: the Hacker News requests
\* carry no timeout, and a call waiting for them need never return.)
C24_EveryCallReturns == (slots[1].pc # "idle") ~> (slots[1].pc = "idle")

(***************************************************************************)
(* Properties of the repo-context server                                   *)
(***************************************************************************)
RepoReadingTools ==
    {"read_file", "get_repo_structure", "list_files", "get_file_summary", "analyze_repo"}

\* path p is directory dir or lies below it
Inside(dir, p) == p = dir \/ StartsWith(p, (IF dir = "/" THEN "" ELSE dir) \o "/")

\* C25: while no repository path is set, read_file, get_repo_structure,
\* list_files, get_file_summary and analyze_repo return the "No repository
\* path set" error text and hand nothing to the file system; the repository
\* path changes only in a set_repo_path call whose argument resolves to an
\* existing directory, and a set_repo_path call that fails leaves it as it
\* was.
C25_NoRepoPathNoAccess ==
    [][repo' # repo =>
         /\ (repo.repoPath = "" /\ repo'.name \in RepoReadingTools)
            => /\ repo'.status = "text"
               /\ repo'.text = "Error: No repository path set. Use set_repo_path first."
               /\ repo'.touched = {} /\ repo'.read = {}
         /\ repo'.repoPath # repo.repoPath
            => /\ repo'.name = "set_repo_path"
               /\ repo'.repoPath \in FsDirectories
               /\ repo'.text = "Repository path set to: " \o repo'.repoPath
         /\ (repo'.name = "set_repo_path" /\ StartsWith(repo'.text, "Error"))
            => repo'.repoPath = repo.repoPath]_vars

\* C25 happens: read_file was refused for want of a repository path
C25_ReadRefused ==
    /\ repo.name = "read_file"
    /\ repo.repoPath = ""
    /\ repo.text = "Error: No repository path set. Use set_repo_path first."
    /\ repo.touched = {}

\* C26: whatever the filePath argument, ".." segments and absolute paths
\* included, the file read_file or get_file_summary reads lies inside the
\* directory set by set_repo_path.  (Refuted: "../secret.txt" is read from
\* the directory above.)
C26_ReadsStayInsideRepo ==
    repo.name \in {"read_file", "get_file_summary"}
    => \A f \in repo.read : Inside(repo.repoPath, f)

(***************************************************************************)
(* Properties of the extraction                                            *)
(***************************************************************************)
\* C27: when a selector of the cascade matches elements of more than 100
\* characters of trimmed text, the main content is not empty and is made of
\* the paragraphs, headings and list items of more than 20 characters under
\* the elements of the first such selector in cascade order.  (Refuted: an
\* article whose text sits in div elements yields an empty main content.)
C27_CascadeYieldsContent ==
    (Evaluated("extractMainContent") /\ Qualifying(Cleaned(pure.input)) # {})
    => LET doc   == Cleaned(pure.input)
           first == CHOOSE i \in Qualifying(doc) : \A j \in Qualifying(doc) : i <= j
           found == Paragraphs(Select(doc, contentSelectors[first]))
       IN  /\ pure.output # <<>>
           /\ pure.output = SelectSeq(found, LAMBDA t : Len(t) > 20)

(***************************************************************************)
(* Properties of the API adapter                                           *)
(***************************************************************************)
\* the requests the adapter cannot do without have succeeded
EssentialsSucceeded(url, net) ==
    IF ApiRoute(url) = "github" THEN net.user.ok /\ net.repos.ok
    ELSE net.list.ok /\ net.items.ok

\* C28: when the requests of the adapter have settled, the failure of the
\* activity request alone does not fail the call: the formatted block is
\* returned, without activity; the failure of the profile or the repository
\* request, or of the list or an item request of the aggregation site,
\* fails the adapter, and the call goes on to the page fetch with nothing
\* returned and nothing written.
C28_OnlyEssentialFailuresFail ==
    [][\A p \in Slots, net \in GithubNets \cup HackerNewsNets :
          ApiReturn(p, net) =>
             LET url == slots[p].normalizedUrl
             IN  IF EssentialsSucceeded(url, net)
                 THEN /\ slots'[p].pc = "idle"
                      /\ last'.status = "text"
                      /\ StartsWith(last'.text, "API content from " \o url \o ":\n")
                      /\ ApiRoute(url) = "github"
                         => /\ Includes(last'.text, "GitHub Profile: ")
                            /\ Includes(last'.text, "Recent Activity:") <=> net.events.ok
                 ELSE /\ slots'[p].pc = "fetch"
                      /\ slots'[p].apiFailed
                      /\ last' = last
                      /\ cache' = cache]_vars

\* C28 happens: a profile was answered by the API without its activity
C28_ProfileWithoutActivity ==
    /\ LastScrapeReturned
    /\ last.tier = "api"
    /\ Includes(last.text, "GitHub Profile: ")
    /\ Includes(last.text, "Recent Repositories:")
    /\ ~Includes(last.text, "Recent Activity:")

\* the address is on a domain of strategies.api and no branch of
\* scrapeViaAPI issues a request for it
NoMappingApplies(url) ==
    LET urlObj == ParseURL(url)
        domain == ReplaceFirst(urlObj.hostname, "www.", "")
    IN  \/ domain = "reddit.com"
        \/ domain = "github.com" /\ urlObj.pathname = "/"
        \/ domain = "news.ycombinator.com" /\ urlObj.pathname \notin {"/", "/news"}

\* C29: a scrape_website call that misses the cache for an address of a
\* registered API domain to which no mapping applies goes on to the page
\* fetch with the API attempt marked failed, nothing returned and nothing
\* written; and no response ever carries the adapter's "No API available"
\* message.
C29_UnmappedAddressFallsBack ==
    /\ [][\A p \in Slots, args \in ScrapeArgs :
            ( /\ CallScrape(p, args)
              /\ "url" \in DOMAIN args
              /\ NoMappingApplies(NormalizeUrl(args.url))
              /\ LET cached == CacheGet(cache, getCacheKey(NormalizeUrl(args.url)))
                 IN  cached = <<>> \/ ~Fresh(cached, clock) )
            => /\ slots'[p].pc = "fetch"
               /\ slots'[p].apiFailed
               /\ slots'[p].requests = 1
               /\ last' = last
               /\ cache' = cache]_vars
    /\ [](LastScrapeReturned => ~Includes(last.text, "No API available"))

\* C29 happens: a reddit.com address was answered from its page after the
\* adapter had nothing for it
C29_RedditScraped ==
    /\ LastScrapeReturned
    /\ last.normalizedUrl = "https://reddit.com/r/tla"
    /\ last.apiFailed /\ ~last.apiOk
    /\ last.requests = 1
    /\ StartsWith(last.text, "Scraped content from https://reddit.com/r/tla")

(***************************************************************************)
(* C30: expiry is lazy.  No step removes an entry because it has expired:  *)
(* an entry of the cache, expired or not, is still there after every step  *)
(* unless the step is reset_cache (the cache is empty afterwards) or a     *)
(* write made when the cache held cacheSizeLimit entries, expired ones     *)
(* included; an entry that changed was overwritten by a write to its key,  *)
(* so it carries the time of the write; and the passing of time alone      *)
(* changes nothing.  An expired entry is still served by the timeout       *)
(* fallback.                                                               *)
(***************************************************************************)
Expired(e, now) == now - e.timestamp >= e.ttl

C30_ExpiryIsLazy ==
    /\ [][\A i \in 1..Len(cache) :
            LET e     == cache[i]
                after == CacheGet(cache', e.key)
            IN  /\ after = <<>>
                   => \/ cache' = <<>> /\ last'.name = "reset_cache"
                      \/ /\ Len(cache) >= cacheSizeLimit
                         /\ \E j \in 1..Len(cache') : cache'[j].timestamp = clock
                         /\ Len(cache') <= cacheSizeLimit - ToRemove + 1
                /\ after # <<>> /\ after[1] # e
                   => /\ after[1].timestamp = clock
                      /\ last'.cacheKey = e.key]_vars
    /\ [][clock' # clock => cache' = cache]_vars
    /\ [](( /\ LastScrapeReturned
            /\ last.stale # <<>>
            /\ Includes(last.errorMessage, "ETIMEDOUT") )
          => Includes(last.text, last.stale[1].content))

\* an entry that expired is still in the full cache and was served to a
\* call whose retrieval timed out
C30_ExpiredEntryServed ==
    /\ LastScrapeReturned
    /\ last.stale # <<>>
    /\ Expired(last.stale[1], last.now)
    /\ Includes(last.errorMessage, "ETIMEDOUT")
    /\ CacheGet(cache, last.cacheKey) = last.stale
    /\ Len(cache) >= cacheSizeLimit - 1
    /\ \E i \in 1..Len(cache) : cache[i].key # last.cacheKey /\ Expired(cache[i], clock)

(***************************************************************************)
(* C31: a scrape_website call that ends in a successful retrieval (its     *)
(* text starts with "API content from" or "Scraped content from") writes   *)
(* the cache once, in the step that returns: the entry under the key of    *)
(* its normalized address then holds the body of the response and the time *)
(* of the write, every other entry is as before (the cache being below its *)
(* capacity), and no other step of a call changes the cache.  The          *)
(* low-confidence answer of a domain that is neither allow-listed nor      *)
(* dynamic is stored like the others.                                      *)
(***************************************************************************)
BodyMark == ":\n" \o Separator \o "\n"

\* the part of a response after its label and separator line
BodyOf(text) == SubSeq(text, IndexOf(text, BodyMark) + Len(BodyMark), Len(text))

SuccessfulText(text) ==
    StartsWith(text, "API content from ") \/ StartsWith(text, "Scraped content from ")

C31_SuccessWritesOnce ==
    /\ [][\A p \in Slots :
            ( /\ slots[p].pc \in {"api", "fetch"}
              /\ slots'[p].pc = "idle"
              /\ SuccessfulText(last'.text) )
            => LET key   == getCacheKey(slots[p].normalizedUrl)
                   after == CacheGet(cache', key)
               IN  /\ Len(after) = 1
                   /\ after[1].content = BodyOf(last'.text)
                   /\ after[1].timestamp = clock
                   /\ Len(cache) < cacheSizeLimit
                      => /\ \A i \in 1..Len(cache) :
                              cache[i].key # key
                              => CacheGet(cache', cache[i].key) = <<cache[i]>>
                         /\ \A j \in 1..Len(cache') :
                              cache'[j].key # key
                              => CacheGet(cache, cache'[j].key) = <<cache'[j]>>]_vars
    /\ [][cache' # cache
          => \/ cache' = <<>> /\ last'.name = "reset_cache"
             \/ \E p \in Slots :
                  /\ slots[p].pc \in {"api", "fetch"}
                  /\ slots'[p].pc = "idle"
                  /\ SuccessfulText(last'.text)]_vars

\* a low-confidence answer for a domain on neither list, stored as returned
C31_LowConfidenceStored ==
    /\ LastScrapeReturned
    /\ StartsWith(last.text, "Scraped content from " \o last.normalizedUrl \o BodyMark)
    /\ ~ArrayIncludes(strategiesBasic, DomainOf(last.normalizedUrl))
    /\ ~ArrayIncludes(strategiesDynamic, DomainOf(last.normalizedUrl))
    /\ CacheGet(cache, last.cacheKey) # <<>>
    /\ CacheGet(cache, last.cacheKey)[1].content = BodyOf(last.text)
    /\ CacheGet(cache, last.cacheKey)[1].timestamp = clock

(***************************************************************************)
(* C32: the score, in hundredths, is the smaller of 100 and the sum of 30  *)
(* for a structured-data block, 20 for a title, 10 for a description, one  *)
(* of 30, 20, 10 or 0 for a main content longer than 500, 200, 50          *)
(* characters or not, and 10 for a profile identifier; and no content that *)
(* has every signal of the evaluated one, with a main content at least as  *)
(* long, scores less.                                                      *)
(***************************************************************************)
HasStructuredData(content) == content.jsonLd # <<>>
HasTitle(content) == content.metaData.title # ""
HasDescription(content) == content.metaData.description # ""
HasProfile(content) == content.hasGithubData /\ content.githubData.username # ""
MainChars(content) == Len(Join(content.mainContent, ""))

SignalSum(content) ==
    (IF HasStructuredData(content) THEN 30 ELSE 0)
    + (IF HasTitle(content) THEN 20 ELSE 0)
    + (IF HasDescription(content) THEN 10 ELSE 0)
    + (CASE MainChars(content) > 500 -> 30
         [] MainChars(content) > 200 /\ MainChars(content) <= 500 -> 20
         [] MainChars(content) > 50 /\ MainChars(content) <= 200 -> 10
         [] OTHER -> 0)
    + (IF HasProfile(content) THEN 10 ELSE 0)

AtLeastTheSignalsOf(more, less) ==
    /\ HasStructuredData(less) => HasStructuredData(more)
    /\ HasTitle(less) => HasTitle(more)
    /\ HasDescription(less) => HasDescription(more)
    /\ HasProfile(less) => HasProfile(more)
    /\ MainChars(less) <= MainChars(more)

C32_ScoreIsCappedSumAndMonotonic ==
    pure.method = "calculateConfidence"
    => /\ pure.output = (IF SignalSum(pure.input) < 100 THEN SignalSum(pure.input) ELSE 100)
       /\ \A more \in Contents :
            AtLeastTheSignalsOf(more, pure.input)
            => calculateConfidence(more) >= pure.output

\* a title, a description, a profile and a main content of 201 characters
C32_MiddleThresholdScored ==
    /\ pure.method = "calculateConfidence"
    /\ ~HasStructuredData(pure.input)
    /\ HasTitle(pure.input) /\ HasDescription(pure.input) /\ HasProfile(pure.input)
    /\ MainChars(pure.input) = 201
    /\ pure.output = 60

(***************************************************************************)
(* C33: the title reported for a page is the first non-empty of its        *)
(* og:title, its twitter:title and the text of its title element, in that  *)
(* order; a page without any of them reports no title.                     *)
(***************************************************************************)
FirstNonEmpty(sources) ==
    IF \A i \in 1..Len(sources) : sources[i] = "" THEN ""
    ELSE sources[CHOOSE i \in 1..Len(sources) :
                    sources[i] # "" /\ \A j \in 1..(i - 1) : sources[j] = ""]

\* the title line of a formatted content; "" when it has none
ReportedTitle(content) ==
    IF StartsWith(content, "Title: ")
    THEN SubSeq(content, Len("Title: ") + 1, IndexOf(content, "\n") - 1)
    ELSE ""

C33_TitleFromMetaTagsFirst ==
    pure.method = "enhancedBasicScrape"
    => ReportedTitle(pure.output.content)
         = FirstNonEmpty(<<pure.input.page.ogTitle, pure.input.page.twitterTitle,
                           pure.input.page.titleText>>)

\* a page with a title element and an og:title reports the og:title
C33_OpenGraphOverTitleElement ==
    /\ pure.method = "enhancedBasicScrape"
    /\ pure.input.page.titleText = "Document title"
    /\ pure.input.page.ogTitle = "Open Graph title"
    /\ ReportedTitle(pure.output.content) = "Open Graph title"

\* C33 as stated: the title element first, then og:title, then twitter:title
C33_TitleElementFirst ==
    pure.method = "enhancedBasicScrape"
    => ReportedTitle(pure.output.content)
         = FirstNonEmpty(<<pure.input.page.titleText, pure.input.page.ogTitle,
                           pure.input.page.twitterTitle>>)

(***************************************************************************)
(* C34: when no selector of the cascade applies, the main content is made  *)
(* of the texts of the div, section, article and p blocks whose trimmed    *)
(* own text has at least 50 characters and which earn at least 2 of the 3  *)
(* points (more than 10 words, fewer than 0.3 links per 100 characters,    *)
(* more than 0.5 sentence marks per 100 characters): all of them when they *)
(* are at most 10, else the 10 that come first by score and then by        *)
(* length, and always in that order: the k-th text returned is that of a   *)
(* retained block with fewer than k retained blocks strictly before it and *)
(* at least k not after it.                                                *)
(***************************************************************************)
Points(b) ==
    Cardinality({n \in 1..3 :
        \/ n = 1 /\ WordCount(b.text) > 10
        \/ n = 2 /\ 10 * 100 * b.links < 3 * Len(b.text)
        \/ n = 3 /\ 2 * 100 * CountIn(b.text, {".", "!", "?"}) > Len(b.text)})

Retained(b) == Len(b.text) >= 50 /\ Points(b) >= 2

\* b comes no later than c in the order of the result
NoLater(b, c) ==
    \/ Points(b) > Points(c)
    \/ Points(b) = Points(c) /\ Len(b.text) >= Len(c.text)

FallbackApplies(document) == Qualifying(Cleaned(document)) = {}

C34_FallbackKeepsTenBest ==
    (pure.method = "extractMainContent" /\ FallbackApplies(pure.input))
    => LET blocks   == DensityCandidates(Cleaned(pure.input))
           retained == {i \in 1..Len(blocks) : Retained(blocks[i])}
           out      == pure.output
       IN  /\ Len(out) <= 10
           /\ Len(out) = (IF Cardinality(retained) < 10 THEN Cardinality(retained) ELSE 10)
           /\ \A k \in 1..Len(out) :
                \E i \in retained :
                    /\ out[k] = blocks[i].text
                    /\ Cardinality({j \in retained : ~NoLater(blocks[i], blocks[j])}) < k
                    /\ Cardinality({j \in retained : NoLater(blocks[j], blocks[i])}) >= k

\* thirteen blocks were retained and ten returned, the six of three points
\* before the four longest of two points
C34_TenOfThirteen ==
    /\ pure.method = "extractMainContent"
    /\ pure.input = <<LongSection>>
    /\ Len(pure.output) = 10
    /\ pure.output[1] = Trim(Repeat(Sentence, 7))
    /\ pure.output[6] = Trim(Repeat(Sentence, 2))
    /\ pure.output[7] = Trim(Repeat("lorem ipsum dolor ", 8))
    /\ pure.output[10] = Trim(Repeat("lorem ipsum dolor ", 5))

(***************************************************************************)
(* C35: a scrape_website call that finds a fresh entry under its key       *)
(* returns it and leaves the engine as it was: the cache has the same      *)
(* entries, with the same content, timestamp and ttl, in the same order,   *)
(* the connectivity memo is the same and no request is started; so the     *)
(* entries an eviction would remove are the same before and after.         *)
(***************************************************************************)
C35_HitChangesNothing ==
    [][\A p \in Slots, a \in Addresses \cup FullAddresses :
        LET hit == CacheGet(cache, getCacheKey(NormalizeUrl(a)))
        IN  ( /\ CallScrape(p, [url |-> a])
              /\ hit # <<>>
              /\ clock - hit[1].timestamp < hit[1].ttl )
            => /\ cache' = cache
               /\ lastConnectivityCheck' = lastConnectivityCheck
               /\ slots' = slots
               /\ StartsWith(last'.text, "Cached content from ")
               /\ Len(cache) >= cacheSizeLimit => EvictOldest(cache') = EvictOldest(cache)]_vars

\* a call was served from the full cache, which still holds the entry it
\* read, first in the order and as old as it was
C35_ServedFromFullCache ==
    /\ LastScrapeReturned
    /\ last.requests = 0
    /\ last.seen # <<>>
    /\ StartsWith(last.text, "Cached content from " \o last.normalizedUrl \o ":\n")
    /\ Len(cache) = cacheSizeLimit
    /\ cache[1] = last.seen[1]
    /\ cache[1].timestamp < last.now

(***************************************************************************)
(* C36: a step in which a scrape_website call returns "Error scraping" or  *)
(* the timeout fallback leaves the cache as it was, the stale entry served *)
(* included; a step in which the API attempt of a call fails (the user or  *)
(* the repos request of GitHub, the list or an item of Hacker News) leaves *)
(* the cache as it was and sends the call to the page fetch; and no entry  *)
(* of the cache ever holds the text of an error or of a fallback.          *)
(***************************************************************************)
FailureText(text) ==
    \/ StartsWith(text, "Error scraping ")
    \/ StartsWith(text, "Cached content from ") /\ Includes(text, " (network timeout):\n")

ApiAttemptFailed(url, net) ==
    IF ReplaceFirst(ParseURL(url).hostname, "www.", "") = "github.com"
    THEN ~net.user.ok \/ ~net.repos.ok
    ELSE ~net.list.ok \/ ~net.items.ok

C36_FailureWritesNothing ==
    /\ [][( /\ last'.name = "scrape_website"
            /\ FailureText(last'.text)
            /\ \/ last' # last
               \/ \E p \in Slots : slots[p].pc # "idle" /\ slots'[p].pc = "idle" )
          => cache' = cache]_vars
    /\ [][\A p \in Slots, net \in GithubNets \cup HackerNewsNets :
            (ApiReturn(p, net) /\ ApiAttemptFailed(slots[p].normalizedUrl, net))
            => /\ cache' = cache
               /\ last' = last
               /\ slots'[p].pc = "fetch"]_vars
    /\ [](\A i \in 1..Len(cache) :
            /\ ~Includes(cache[i].content, "Error scraping ")
            /\ ~Includes(cache[i].content, "(network timeout)")
            /\ ~Includes(cache[i].content, "No API available"))

\* the API attempt of a call failed, its page fetch timed out, and the
\* expired entry it was answered with is in the cache as it was stored
C36_StaleServedUntouched ==
    /\ LastScrapeReturned
    /\ last.apiFailed
    /\ FailureText(last.text)
    /\ last.stale # <<>>
    /\ last.stale[1].timestamp + last.stale[1].ttl <= last.now
    /\ cache = last.stale

(***************************************************************************)
(* C37: a write that finds 50 entries removes the five with the smallest   *)
(* timestamps whether or not the key written is already in the cache: it   *)
(* leaves 45 entries when the key was held and was not among the five, 46  *)
(* when the key is new or was among them.  A write that finds fewer than   *)
(* 50 entries removes nothing: every entry under another key stays as it   *)
(* was, in its place, and the cache grows by one exactly when the key is   *)
(* new.                                                                    *)
(***************************************************************************)
KeyPositions(c, key) == {i \in 1..Len(c) : c[i].key = key}

C37_SizeAloneTriggersEviction ==
    [][(cache' # cache /\ cache' # <<>>)
       => LET key  == last'.cacheKey
              held == KeyPositions(cache, key)
           IN  /\ Len(CacheGet(cache', key)) = 1
               /\ Len(cache) >= cacheSizeLimit
                  => /\ \A i \in OldestFive(cache) :
                          cache[i].key # key => CacheGet(cache', cache[i].key) = <<>>
                     /\ Len(cache') = (IF held # {} /\ held \cap OldestFive(cache) = {}
                                       THEN 45 ELSE 46)
               /\ Len(cache) < cacheSizeLimit
                  => /\ \A i \in 1..Len(cache) : cache[i].key # key => cache'[i] = cache[i]
                     /\ Len(cache') = (IF held # {} THEN Len(cache) ELSE Len(cache) + 1)]_vars

\* the key rewritten was held by the full cache and was not among the five
\* oldest: 45 entries are left
C37_RewriteLeaves45 ==
    /\ LastScrapeReturned
    /\ last.wrote # <<>>
    /\ last.sizeBefore = cacheSizeLimit
    /\ last.seen # <<>>
    /\ Len(cache) = 45
    /\ CacheGet(cache, last.cacheKey) = last.wrote
    /\ CacheGet(cache, "f5.example/") = <<>>

(***************************************************************************)
(* C38: the entries a write at capacity removes are chosen by timestamp    *)
(* alone: each entry removed was stored no later than each entry kept, and *)
(* of two stored at the same time the one inserted first goes; whether an  *)
(* entry has expired plays no part, so an entry still within its ttl can   *)
(* go while one stored later that has expired stays.                       *)
(***************************************************************************)
C38_VictimsByTimestampOnly ==
    [][(Len(cache) >= cacheSizeLimit /\ cache' # cache /\ cache' # <<>>)
       => LET key     == last'.cacheKey
              others  == {i \in 1..Len(cache) : cache[i].key # key}
              removed == {i \in others : CacheGet(cache', cache[i].key) = <<>>}
              kept    == others \ removed
          IN  /\ Cardinality(removed) \in {4, 5}
              /\ Cardinality(removed) = 4 <=> KeyPositions(cache, key) \cap OldestFive(cache) # {}
              /\ \A r \in removed, k \in kept :
                    \/ cache[r].timestamp < cache[k].timestamp
                    \/ cache[r].timestamp = cache[k].timestamp /\ r < k]_vars

\* the write removed f1.example, stored at 0 and good until 3600, and kept
\* f30.example/feed, stored at 1 and expired since 301
C38_UnexpiredGoneExpiredKept ==
    /\ LastScrapeReturned
    /\ last.wrote # <<>>
    /\ last.sizeBefore = cacheSizeLimit
    /\ CacheGet(cache, "f1.example/") = <<>>
    /\ clock < 3600
    /\ CacheGet(cache, "f30.example/feed") # <<>>
    /\ Expired(CacheGet(cache, "f30.example/feed")[1], last.wrote[1].timestamp)
    /\ CacheGet(cache, "f30.example/feed")[1].timestamp = 1

(***************************************************************************)
(* C39: between two resets the timestamp of the connectivity memo never    *)
(* decreases: a step that replaces a memo leaves one at least as recent.   *)
(* (Refuted: each check stamps the memo with the time at which it started, *)
(* so of two overlapping checks the one that started first and settles     *)
(* last puts the older time back.)                                         *)
(***************************************************************************)
C39_MemoTimestampNeverDecreases ==
    [][(lastConnectivityCheck # <<>> /\ lastConnectivityCheck' # <<>>)
       => lastConnectivityCheck'[1].timestamp >= lastConnectivityCheck[1].timestamp]_vars

(***************************************************************************)
(* C40: the key of an address whose path does not contain "/api/" is its   *)
(* host followed by its path, without the scheme: a call for the address   *)
(* with one scheme that finds a fresh entry stored for the other is served *)
(* that entry as "Cached content from" its own address.  The host is taken *)
(* as it is: the profile address with www. and the one without have        *)
(* different keys, and both are sent to the API with its three requests.   *)
(***************************************************************************)
\* an address without its scheme, its query string and its fragment
HostAndPath(url) ==
    LET start == IndexOf(url, "://") + 3
        tail  == SubSeq(url, start, Len(url))
        stops == {i \in 1..Len(tail) : SubSeq(tail, i, i) \in {"?", "#"}}
        rest  == IF stops = {} THEN tail
                 ELSE SubSeq(tail, 1, (CHOOSE i \in stops : \A j \in stops : i <= j) - 1)
    IN  IF \E i \in 1..Len(rest) : SubSeq(rest, i, i) = "/"
        THEN rest
        ELSE rest \o "/"

SchemeTwins == {"https://f1.example/", "http://f1.example/"}

C40_KeyWithoutSchemeWithHostAsIs ==
    /\ [](\A p \in Slots :
            (slots[p].name = "scrape_website" /\ slots[p].pc # "idle")
            => slots[p].cacheKey = HostAndPath(slots[p].normalizedUrl))
    /\ [][\A p \in Slots, a \in SchemeTwins :
            LET held == CacheGet(cache, "f1.example/")
            IN  ( /\ CallScrape(p, [url |-> a])
                  /\ held # <<>>
                  /\ clock - held[1].timestamp < held[1].ttl )
                => /\ last'.text = "Cached content from " \o a \o BodyMark \o held[1].content
                   /\ slots' = slots
                   /\ cache' = cache]_vars
    /\ [][\A p \in Slots, a \in GithubProfiles :
            ( /\ CallScrape(p, [url |-> a])
              /\ LET held == CacheGet(cache, HostAndPath(a))
                 IN  held = <<>> \/ clock - held[1].timestamp >= held[1].ttl )
            => /\ slots'[p].cacheKey = HostAndPath(a)
               /\ StartsWith(a, "https://www.") <=> StartsWith(slots'[p].cacheKey, "www.")
               /\ slots'[p].pc = "api"
               /\ slots'[p].requests = 3]_vars

\* the entry of the initial cache, retrieved from https://f1.example/ at
\* second 0, was served to a call for http://f1.example/
C40_HttpsEntryServedToHttp ==
    /\ LastScrapeReturned
    /\ last.normalizedUrl = "http://f1.example/"
    /\ last.requests = 0
    /\ last.seen = <<FillerEntry(1)>>
    /\ StartsWith(last.text, "Cached content from http://f1.example/:\n")
    /\ EndsWith(last.text, FillerEntry(1).content)

=============================================================================
